---- MODULE Spec2Model ----
(***************************************************************************)
(* A model of the KTU API server (src/server.js): the retrying HTTP client *)
(* makeRequest, the browser login loginStudent, the node-cache store and   *)
(* the four request handlers.                                              *)
(*                                                                         *)
(* JavaScript strings that the code inspects character by character (the   *)
(* register number, the cache keys) are sequences of one-character         *)
(* strings.  Values that may be null / undefined / empty are records with  *)
(* a "kind" field, so that every comparison is between records.            *)
(***************************************************************************)
EXTENDS Integers, Sequences, FiniteSets, TLC

VARIABLES
    mr,        \* one invocation of makeRequest, called on its own
    lg,        \* one invocation of loginStudent, called on its own
    cache,     \* the NodeCache store: key -> stored value
    req,       \* the requests the server has accepted: index -> handler state
    cacheSets, \* history: number of cache.set calls so far
    setBy      \* history: key -> the request whose cache.set wrote the live entry

vars == <<mr, lg, cache, req, cacheSets, setBy>>

----------------------------------------------------------------------------
(* Bounds of the model *)

\* requests the server accepts in one behaviour
MaxRequests == 2

----------------------------------------------------------------------------
(* makeRequest: src/server.js 48-66 *)

\* default value of the parameter `retries`
Retries == 3

defaultHeaders ==
    [h \in {"User-Agent", "Accept", "Accept-Language", "Referer"} |->
        CASE h = "User-Agent" -> "Mozilla/5.0"
          [] h = "Accept" -> "text/html"
          [] h = "Accept-Language" -> "en-US"
          [] h = "Referer" -> "https://app.ktu.edu.in/"]

\* { ...defaultHeaders, ...(opts.headers || {}) }: the caller's headers win
MergeHeaders(defaults, headers) == headers @@ defaults

NoResponse == [kind |-> "undefined"]
NoError == [kind |-> "none"]

\* the state of the call once the synchronous prologue has run and the first
\* axiosInstance.request is awaited (or, with retries <= 0, the loop is skipped)
MRStart(url, options, retries) ==
    [pc       |-> IF retries > 0 THEN "request" ELSE "returned",
     i        |-> 0,
     retries  |-> retries,
     opts     |-> [method  |-> options.method,
                   headers |-> MergeHeaders(defaultHeaders, options.headers),
                   url     |-> url],
     response |-> NoResponse,
     error    |-> NoError,
     log      |-> << >>,
     waits    |-> << >>]

\* MROnSuccess without the return: the loop goes on after a success
MROnSuccessNoReturn(m, response) ==
    [m EXCEPT !.pc = IF m.i = m.retries - 1 THEN "returned" ELSE "backoff",
              !.response = response,
              !.log = Append(m.log, response)]

\* the awaited request resolved: return response
MROnSuccess(m, response) ==
    [m EXCEPT !.pc = "returned",
              !.response = response,
              !.log = Append(m.log, response)]

\* MROnFailure with the test `i === retries`: the last error is never thrown
MROnFailureOffByOne(m, err) ==
    IF m.i = m.retries
      THEN [m EXCEPT !.pc = "threw",
                     !.error = err,
                     !.log = Append(m.log, err)]
      ELSE [m EXCEPT !.pc = "backoff",
                     !.log = Append(m.log, err),
                     !.waits = Append(m.waits, 1000 * (m.i + 1))]

\* MROnFailure with a backoff of one second whatever the attempt
MROnFailureFlatBackoff(m, err) ==
    IF m.i = m.retries - 1
      THEN [m EXCEPT !.pc = "threw",
                     !.error = err,
                     !.log = Append(m.log, err)]
      ELSE [m EXCEPT !.pc = "backoff",
                     !.log = Append(m.log, err),
                     !.waits = Append(m.waits, 1000)]

\* the awaited request rejected: the catch block
MROnFailure(m, err) ==
    IF m.i = m.retries - 1
      THEN [m EXCEPT !.pc = "threw",
                     !.error = err,
                     !.log = Append(m.log, err)]
      ELSE [m EXCEPT !.pc = "backoff",
                     !.log = Append(m.log, err),
                     !.waits = Append(m.waits, 1000 * (m.i + 1))]

\* the backoff timer fired: i++ and the next iteration's request is awaited
MROnBackoffDone(m) ==
    IF m.i + 1 < m.retries
      THEN [m EXCEPT !.pc = "request", !.i = m.i + 1]
      ELSE [m EXCEPT !.pc = "returned", !.i = m.i + 1]

\* what one awaited axiosInstance.request can do: resolve with a 2xx response
\* or reject (a network error, or a status outside 2xx carried on the error)
MRIsResponse(o) == o.kind = "response"

MRApply(m, o) ==
    IF MRIsResponse(o) THEN MROnSuccess(m, o) ELSE MROnFailure(m, o)

\* the whole call against a given sequence of attempt outcomes, the backoff
\* timers included; outcomes past the end of the call are not consumed
RECURSIVE MRRun(_, _)
MRRun(m, outcomes) ==
    IF m.pc = "backoff" THEN MRRun(MROnBackoffDone(m), outcomes)
    ELSE IF m.pc # "request" \/ outcomes = << >> THEN m
    ELSE MRRun(MRApply(m, Head(outcomes)), Tail(outcomes))

makeRequest(url, options, outcomes) ==
    MRRun(MRStart(url, options, Retries), outcomes)

----------------------------------------------------------------------------
(* makeRequest called on its own *)

Response(status, data) == [kind |-> "response", status |-> status, data |-> data]
Failure(message, status) == [kind |-> "error", message |-> message, status |-> status]

EmptyBody == [kind |-> "empty"]
HtmlBody(doc) == [kind |-> "html", doc |-> doc]

MRUrls == {"https://ktu.edu.in/eu/core/announcements.htm",
           "https://app.ktu.edu.in/attendance.htm"}
MROptions == {[method |-> "GET", headers |-> << >>],
              [method |-> "GET", headers |-> [Cookie |-> "c1"]],
              [method |-> "GET", headers |-> [Referer |-> "r1"]]}
MRResponses == {Response(200, HtmlBody("a")), Response(200, EmptyBody),
                Response(204, EmptyBody)}
MRFailures == {Failure("timeout", 0), Failure("ECONNRESET", 0),
               Failure("status 500", 500)}

MRIdle == [pc |-> "idle"]

MRCall ==
    /\ mr.pc = "idle"
    /\ \E url \in MRUrls, options \in MROptions :
         mr' = MRStart(url, options, Retries)
    /\ UNCHANGED <<lg, cache, req, cacheSets, setBy>>

MRAttemptResolves ==
    /\ mr.pc = "request"
    /\ \E response \in MRResponses : mr' = MROnSuccess(mr, response)
    /\ UNCHANGED <<lg, cache, req, cacheSets, setBy>>

MRAttemptRejects ==
    /\ mr.pc = "request"
    /\ \E err \in MRFailures : mr' = MROnFailure(mr, err)
    /\ UNCHANGED <<lg, cache, req, cacheSets, setBy>>

MRBackoffDone ==
    /\ mr.pc = "backoff"
    /\ mr' = MROnBackoffDone(mr)
    /\ UNCHANGED <<lg, cache, req, cacheSets, setBy>>

----------------------------------------------------------------------------
(* loginStudent: src/server.js 75-119 *)

KTU_LOGIN_URL == "https://app.ktu.edu.in/login.jsp"
KTU_DETAILS_URL == "https://app.ktu.edu.in/eu/stu/studentDetailsView.htm"

Null == [kind |-> "null"]
Pending == [kind |-> "pending"]
Thrown(err) == [kind |-> "thrown", error |-> err]
Html(page, doc) == [kind |-> "html", page |-> page, doc |-> doc]

\* What the portal serves at the details URL, as far as the handlers read it:
\* the text beside the CGPA badge and the rows of the activity-points table
\* (each row its cells' texts).  A page without those elements has none.
Page(name, cgpa, activity) == [name |-> name, cgpa |-> cgpa, activity |-> activity]
LoginPage == Page("", << >>, << >>)

\* the cookies the browser holds for the portal: none before the login page
\* is loaded, then the session the portal opened with it
NoCookies == [kind |-> "cookies", session |-> "none"]
SessionCookie(id) == [kind |-> "cookies", session |-> id]

\* the awaited browser calls of the try block, in program order
LoginSteps ==
    <<"launch", "newPage", "gotoLogin", "csrfToken", "typeUsername",
      "typePassword", "submit", "waitForNavigation", "gotoProfile", "content">>

StepIndex(step) == CHOOSE k \in 1..Len(LoginSteps) : LoginSteps[k] = step

\* LGStart with the browser taken from a pool of running ones
LGStartFromPool(registerNo, password) ==
    [pc         |-> "newPage",
     registerNo |-> registerNo,
     password   |-> password,
     browser    |-> "open",
     cookies    |-> NoCookies,
     url        |-> "",
     formToken  |-> "",
     csrfToken  |-> "",
     username   |-> << >>,
     typedPass  |-> "",
     submitted  |-> FALSE,
     sentToken  |-> "",
     accepted   |-> FALSE,
     content    |-> Pending,
     result     |-> Pending,
     trail      |-> << >>]

\* the call has run up to its first await, puppeteer.launch
LGStart(registerNo, password) ==
    [pc         |-> "launch",
     registerNo |-> registerNo,
     password   |-> password,
     browser    |-> "none",         \* none | open | closed
     cookies    |-> NoCookies,      \* the browser's cookies for the portal
     url        |-> "",             \* where the page is
     formToken  |-> "",             \* value of input[name=CSRF_TOKEN] on the page
     csrfToken  |-> "",             \* the local csrfToken
     username   |-> << >>,          \* typed into input[name=username]
     typedPass  |-> "",             \* typed into input[name=password]
     submitted  |-> FALSE,
     sentToken  |-> "",             \* the token the submitted form carried
     accepted   |-> FALSE,          \* the portal accepted the credentials
     content    |-> Pending,        \* what the function is about to return
     result     |-> Pending,        \* what the caller receives
     trail      |-> << >>]          \* history: the steps that completed

\* the finally block is entered with `content` as the pending completion
LGFinally(l, completion) ==
    IF l.browser = "open"
      THEN [l EXCEPT !.pc = "close", !.content = completion]
      ELSE [l EXCEPT !.pc = "done", !.content = completion, !.result = completion]

\* the awaited call of step l.pc resolved; e is what the portal and the
\* browser supplied: e.token (the form's token), e.accepted, e.doc
LGOnStepResolved(l, e) ==
    LET t == [l EXCEPT !.trail = Append(l.trail, l.pc)] IN
    CASE l.pc = "launch" -> [t EXCEPT !.pc = "newPage", !.browser = "open"]
      [] l.pc = "newPage" -> [t EXCEPT !.pc = "gotoLogin"]
      [] l.pc = "gotoLogin" ->
           [t EXCEPT !.pc = "csrfToken", !.url = KTU_LOGIN_URL, !.formToken = e.token,
                     !.cookies = SessionCookie(e.token)]
      [] l.pc = "csrfToken" -> [t EXCEPT !.pc = "typeUsername", !.csrfToken = l.formToken]
      [] l.pc = "typeUsername" -> [t EXCEPT !.pc = "typePassword", !.username = l.registerNo]
      [] l.pc = "typePassword" -> [t EXCEPT !.pc = "submit", !.typedPass = l.password]
      [] l.pc = "submit" ->
           [t EXCEPT !.pc = "waitForNavigation", !.submitted = TRUE,
                     !.sentToken = l.csrfToken]
      [] l.pc = "waitForNavigation" ->
           [t EXCEPT !.pc = "gotoProfile", !.accepted = e.accepted]
      [] l.pc = "gotoProfile" -> [t EXCEPT !.pc = "content", !.url = KTU_DETAILS_URL]
      [] l.pc = "content" ->
           \* page.content() of whatever the portal serves at the details URL:
           \* the profile when the session is authenticated, its login page if not
           LGFinally(t, IF l.accepted THEN Html("profile", e.doc)
                                      ELSE Html("login", LoginPage))

\* the awaited call of step l.pc rejected: catch logs and returns null
LGOnStepRejected(l) == LGFinally(l, Null)

\* await browser.close() in the finally block.  When it resolves the pending
\* completion stands; when it rejects, the rejection replaces it, and the
\* browser process may or may not have gone away.
LGOnClose(l, outcome) ==
    CASE outcome = "resolved" ->
           [l EXCEPT !.pc = "done", !.browser = "closed", !.result = l.content]
      [] outcome = "rejected, process gone" ->
           [l EXCEPT !.pc = "done", !.browser = "closed",
                     !.result = Thrown("browser.close")]
      [] outcome = "rejected, process left" ->
           [l EXCEPT !.pc = "done", !.result = Thrown("browser.close")]

CloseOutcomes == {"resolved", "rejected, process gone", "rejected, process left"}

\* the try block with the first n awaited calls resolving and the next one
\* (if any is left) rejecting, up to the await in the finally block
RECURSIVE LGRun(_, _, _)
LGRun(l, n, e) ==
    \* (at stands for l, computed once)
    CHOOSE result \in
        {IF at.pc \in {"close", "done"} THEN at
         ELSE IF n = 0 THEN LGOnStepRejected(at)
         ELSE LGRun(LGOnStepResolved(at, e), n - 1, e) : at \in {l}} : TRUE

----------------------------------------------------------------------------
(* Strings the code inspects: the register number *)

Str10(a, b, c, d, e, f, g, h, i, j) == <<a, b, c, d, e, f, g, h, i, j>>

LowerCase == <<"a","b","c","d","e","f","g","h","i","j","k","l","m",
               "n","o","p","q","r","s","t","u","v","w","x","y","z">>
UpperCase == <<"A","B","C","D","E","F","G","H","I","J","K","L","M",
               "N","O","P","Q","R","S","T","U","V","W","X","Y","Z">>
Digits == {"0","1","2","3","4","5","6","7","8","9"}

IsLetter(ch) == \E k \in 1..26 : ch = LowerCase[k] \/ ch = UpperCase[k]
IsDigit(ch) == ch \in Digits

\* String.prototype.toUpperCase, a character at a time
UpperChar(ch) ==
    IF \E k \in 1..26 : ch = LowerCase[k]
      THEN UpperCase[CHOOSE k \in 1..26 : ch = LowerCase[k]]
      ELSE ch
toUpperCase(s) == [k \in 1..Len(s) |-> UpperChar(s[k])]

\* REGNO_RE = /^[A-Z]{3}\d{2}[A-Z]{2}\d{3}$/i  (src/server.js 73)
REGNO_RE(s) ==
    /\ Len(s) = 10
    /\ \A k \in {1, 2, 3, 6, 7} : IsLetter(s[k])
    /\ \A k \in {4, 5, 8, 9, 10} : IsDigit(s[k])

RegUpper == Str10("A","B","C","2","0","C","S","0","0","1")
RegLower == Str10("a","b","c","2","0","c","s","0","0","1")
RegOther == Str10("X","Y","Z","2","1","E","C","0","0","2")
RegShort == <<"A","B","2","0","C","S","0","0","1">>
RegBad   == Str10("A","B","C","2","X","C","S","0","0","1")

----------------------------------------------------------------------------
(* Text and numbers: what trim, parseInt, parseFloat, toString and toFixed *)
(* do to the text of a cell.  A text is a sequence of characters.  The     *)
(* texts enumerated below hold digits, a sign, a point, blanks and letters; *)
(* a 0x prefix, an exponent and the word Infinity are not among them.       *)

DigitChars == <<"0","1","2","3","4","5","6","7","8","9">>
DigitValue(ch) == (CHOOSE k \in 1..10 : DigitChars[k] = ch) - 1

NaN == [kind |-> "NaN"]
Num(n) == [kind |-> "number", value |-> n]
\* a decimal: value = mantissa / 10^places
Dec(mantissa, places) == [kind |-> "number", mantissa |-> mantissa, places |-> places]
isNaN(x) == x.kind = "NaN"

RECURSIVE Pow10(_)
Pow10(k) == IF k = 0 THEN 1 ELSE 10 * Pow10(k - 1)

\* String.prototype.trim
RECURSIVE TrimStart(_)
TrimStart(t) == IF t # << >> /\ Head(t) = " " THEN TrimStart(Tail(t)) ELSE t
RECURSIVE TrimEnd(_)
TrimEnd(t) ==
    IF t # << >> /\ t[Len(t)] = " " THEN TrimEnd(SubSeq(t, 1, Len(t) - 1)) ELSE t
trim(t) == TrimEnd(TrimStart(t))

\* the longest run of digits a text starts with
RECURSIVE DigitRun(_)
DigitRun(t) ==
    IF t # << >> /\ IsDigit(Head(t)) THEN <<Head(t)>> \o DigitRun(Tail(t)) ELSE << >>

RECURSIVE DigitsValue(_)
DigitsValue(ds) ==
    IF ds = << >> THEN 0
    ELSE 10 * DigitsValue(SubSeq(ds, 1, Len(ds) - 1)) + DigitValue(ds[Len(ds)])

HasSign(t) == t # << >> /\ Head(t) \in {"-", "+"}
Unsigned(t) == IF HasSign(t) THEN Tail(t) ELSE t
SignOf(t) == IF t # << >> /\ Head(t) = "-" THEN -1 ELSE 1

\* parseInt(text): leading blanks, a sign, then digits up to the first
\* character that is not one; NaN when there is no digit
parseInt(text) ==
    LET t == TrimStart(text)
        ds == DigitRun(Unsigned(t))
    IN IF ds = << >> THEN NaN ELSE Num(SignOf(t) * DigitsValue(ds))

\* parseFloat(text): as parseInt, with a point and digits after it
parseFloat(text) ==
    LET t == TrimStart(text)
        u == Unsigned(t)
        whole == DigitRun(u)
        after == SubSeq(u, Len(whole) + 1, Len(u))
        frac == IF after # << >> /\ Head(after) = "." THEN DigitRun(Tail(after)) ELSE << >>
    IN IF whole = << >> /\ frac = << >> THEN NaN
       ELSE Dec(SignOf(t) * DigitsValue(whole \o frac), Len(frac))

\* x || d for a number x: NaN and 0 are falsy
OrElse(x, d) == IF isNaN(x) \/ x.value = 0 THEN d ELSE x.value

\* Number.prototype.toString of an integer
RECURSIVE NatToString(_)
NatToString(n) ==
    IF n < 10 THEN <<DigitChars[n + 1]>>
    ELSE NatToString(n \div 10) \o <<DigitChars[(n % 10) + 1]>>
toString(n) == IF n < 0 THEN <<"-">> \o NatToString(-n) ELSE NatToString(n)

Abs(n) == IF n < 0 THEN -n ELSE n

\* (p / q).toFixed(2) for q > 0: the hundredths nearest to the magnitude, the
\* larger when two are equally near, the sign in front when p / q < 0
toFixed2(p, q) ==
    LET a == Abs(p) * 100
        n == (a \div q) + (IF 2 * (a % q) >= q THEN 1 ELSE 0)
        cents == <<DigitChars[((n \div 10) % 10) + 1], DigitChars[(n % 10) + 1]>>
    IN (IF p < 0 THEN <<"-">> ELSE << >>) \o NatToString(n \div 100) \o <<".">> \o cents

----------------------------------------------------------------------------
(* loginStudent called on its own *)

LGRegisterNos == {RegUpper, RegLower, RegOther}
LGPasswords == {"pw", "wrong"}
Tokens == {"t1", "t2"}
T_NSS == <<"N","S","S">>
T_Tech == <<"T","e","c","h">>
T_Total == <<"T","o","t","a","l">>
DocA == Page("Asha", <<":"," ","8",".","5","0">>,
             <<<<T_NSS, <<"6","0">>>>, <<T_Tech, <<"3","5">>>>, <<T_Total, <<"-">>>>>>)
DocB == Page("Binu", << >>, << >>)
ProfileDocs == {DocA, DocB}
PortalEnv == [token : Tokens, accepted : BOOLEAN, doc : ProfileDocs]

LGIdle == [pc |-> "idle"]
LGActive == lg.pc \notin {"idle", "close", "done"}

LGCall ==
    /\ lg.pc = "idle"
    /\ \E registerNo \in LGRegisterNos, password \in LGPasswords :
         lg' = LGStart(registerNo, password)
    /\ UNCHANGED <<mr, cache, req, cacheSets, setBy>>

LGStepResolves ==
    /\ LGActive
    /\ \E e \in PortalEnv : lg' = LGOnStepResolved(lg, e)
    /\ UNCHANGED <<mr, cache, req, cacheSets, setBy>>

LGStepRejects ==
    /\ LGActive
    /\ lg' = LGOnStepRejected(lg)
    /\ UNCHANGED <<mr, cache, req, cacheSets, setBy>>

LGClose ==
    /\ lg.pc = "close"
    /\ \E outcome \in CloseOutcomes : lg' = LGOnClose(lg, outcome)
    /\ UNCHANGED <<mr, cache, req, cacheSets, setBy>>

NextLogin == LGCall \/ LGStepResolves \/ LGStepRejects \/ LGClose

----------------------------------------------------------------------------
(* The cache: new NodeCache({ stdTTL: 1800 }), src/server.js 22 *)

\* cache.get(key): the live entry, or undefined
CacheHas(c, key) == key \in DOMAIN c
CacheGet(c, key) == IF key \in DOMAIN c THEN c[key] ELSE [kind |-> "undefined"]

\* `if (cached)`: a stored record is an object, undefined is falsy
IsCached(v) == ~("kind" \in DOMAIN v /\ v.kind = "undefined")

\* CacheAfterHit had the handler marked the stored object itself
\* (cached.cached = true on a store that hands out references)
CacheAfterHitMarksEntry(c, key) == [c EXCEPT ![key] = [cached |-> TRUE] @@ c[key]]

\* the store after `cache.get(key)` and `{ ...cached, cached: true }`: the
\* spread builds a new object, the entry is not touched
CacheAfterHit(c, key) == c

\* res.json({ ...cached, cached: true })
HitBody(cached) == [cached |-> TRUE] @@ cached

\* cache.set(key, value): the entry is replaced whole
CacheSet(c, key, value) == (key :> value) @@ c

\* the entry's TTL ran out
CacheDrop(c, key) == [k \in DOMAIN c \ {key} |-> c[k]]

PROFILE_ == <<"p","r","o","f","i","l","e","_">>
RESULTS_ == <<"r","e","s","u","l","t","s","_">>
ALL == <<"a","l","l">>
ANNOUNCEMENTS == <<"a","n","n","o","u","n","c","e","m","e","n","t","s">>

\* examId of req.query: absent (undefined) or a string
NoExamId == [given |-> FALSE, value |-> << >>]
ExamId(s) == [given |-> TRUE, value |-> s]
\* `examId ? a : b` and `examId || 'all'`: undefined and "" are falsy
ExamIdTruthy(examId) == examId.given /\ examId.value # << >>

\* ProfileKey without the toUpperCase
ProfileKeyAsTyped(registerNo) == PROFILE_ \o registerNo

\* `profile_${registerNo.toUpperCase()}`  (line 137)
ProfileKey(registerNo) == PROFILE_ \o toUpperCase(registerNo)

\* `results_${registerNo.toUpperCase()}_${examId || 'all'}`  (line 296)
ResultsKey(registerNo, examId) ==
    RESULTS_ \o toUpperCase(registerNo) \o <<"_">>
             \o (IF ExamIdTruthy(examId) THEN examId.value ELSE ALL)

\* 'announcements'  (line 397)
AnnouncementsKey == ANNOUNCEMENTS

----------------------------------------------------------------------------
(* Extraction from the fetched pages *)

\* String.prototype.trim on a cell's text: a blank cell trims to ""
Trim(text) == IF text = " " THEN "" ELSE text

Cell(cells, k) == IF k <= Len(cells) THEN Trim(cells[k]) ELSE ""

\* lines 336-342: the rows of one result element
RECURSIVE ExtractSubjects(_)
ExtractSubjects(rows) ==
    IF rows = << >> THEN << >>
    ELSE LET cells == Head(rows)
             subject == [code       |-> Cell(cells, 1),
                         name       |-> Cell(cells, 2),
                         credits    |-> Cell(cells, 3),
                         grade      |-> Cell(cells, 4),
                         gradePoint |-> Cell(cells, 5)]
             rest == ExtractSubjects(Tail(rows))
         IN IF Len(cells) >= 3 /\ subject.code # "" /\ subject.name # ""
              THEN <<subject>> \o rest
              ELSE rest

\* KeepExam without the test of exam.subjects.length
KeepExamNamed(exam) == exam.examName # ""

\* line 344: if (exam.examName && exam.subjects.length) results.results.push(exam)
KeepExam(exam) == exam.examName # "" /\ Len(exam.subjects) > 0

\* lines 327-345: the result elements of the page, in document order
RECURSIVE ExtractExams(_)
ExtractExams(elems) ==
    IF elems = << >> THEN << >>
    ELSE LET elem == Head(elems)
             exam == [examName |-> Trim(elem.examName),
                      subjects |-> ExtractSubjects(elem.rows)]
             rest == ExtractExams(Tail(elems))
         IN IF KeepExam(exam) THEN <<exam>> \o rest ELSE rest

\* String.prototype.replace(ch, ''): the first occurrence goes
RECURSIVE RemoveFirst(_, _)
RemoveFirst(t, ch) ==
    IF t = << >> THEN << >>
    ELSE IF Head(t) = ch THEN Tail(t)
    ELSE <<Head(t)>> \o RemoveFirst(Tail(t), ch)

\* AcademicInfo with the percentage taken as ten times the cgpa
AcademicInfoTimesTen(cgpaText) ==
    LET cgpa == trim(RemoveFirst(cgpaText, ":"))
        cgpaNum == parseFloat(cgpa)
    IN [cgpa       |-> cgpa,
        percentage |-> IF ~isNaN(cgpaNum)
                         THEN toFixed2(10 * cgpaNum.mantissa, Pow10(cgpaNum.places))
                                \o <<"%">>
                         ELSE << >>]

\* lines 198-207: cgpa is the text beside the badge without its colon,
\* percentage is computed from it
AcademicInfo(cgpaText) ==
    LET cgpa == trim(RemoveFirst(cgpaText, ":"))
        cgpaNum == parseFloat(cgpa)
    IN [cgpa       |-> cgpa,
        percentage |-> IF ~isNaN(cgpaNum)
                         THEN toFixed2(20 * cgpaNum.mantissa - 5 * Pow10(cgpaNum.places),
                                       2 * Pow10(cgpaNum.places)) \o <<"%">>
                         ELSE << >>]

\* /total/i.test(key)
TOTAL == <<"T","O","T","A","L">>
TotalTest(key) ==
    \E k \in 1..(Len(key) - 4) : toUpperCase(SubSeq(key, k, k + 4)) = TOTAL

\* lines 217-226: the rows that go into the breakdown
RECURSIVE Breakdown(_)
Breakdown(rows) ==
    IF rows = << >> THEN << >>
    ELSE LET cells == Head(rows)
             rest == Breakdown(Tail(rows))
         IN IF Len(cells) >= 2
              THEN LET key == trim(cells[1])
                       val == trim(cells[2])
                   IN IF key # << >> /\ val # << >> /\ ~TotalTest(key)
                        THEN <<[category |-> key, points |-> OrElse(parseInt(val), 0)]>>
                               \o rest
                        ELSE rest
              ELSE rest

RECURSIVE SumPoints(_)
SumPoints(breakdown) ==
    IF breakdown = << >> THEN 0 ELSE Head(breakdown).points + SumPoints(Tail(breakdown))

\* activityRows.last().find('td').last().text().trim()
LastCellText(rows) ==
    IF rows = << >> \/ rows[Len(rows)] = << >> THEN << >>
    ELSE LET row == rows[Len(rows)] IN trim(row[Len(row)])

\* lines 215-230
ActivityPoints(rows) ==
    LET breakdown == Breakdown(rows)
        totalPointsText == LastCellText(rows)
        totalPoints == OrElse(parseInt(totalPointsText), SumPoints(breakdown))
    IN [total     |-> toString(totalPoints),
        required  |-> <<"1","0","0">>,
        status    |-> IF totalPoints >= 100 THEN "Completed" ELSE "Pending",
        breakdown |-> breakdown]

\* lines 148-277: the profile built from the page loginStudent returned
ExtractProfile(registerNo, content) ==
    [registerNo     |-> toUpperCase(registerNo),
     personalInfo   |-> [name |-> content.doc.name],
     academicInfo   |-> AcademicInfo(content.doc.cgpa),
     activityPoints |-> ActivityPoints(content.doc.activity)]

\* (attended / total) * 100 to two decimals, with a "%"
Percent(attended, total) ==
    (IF total < 0 THEN toFixed2(-(attended * 100), -total)
                  ELSE toFixed2(attended * 100, total)) \o <<"%">>

\* lines 373-382: the rows of the attendance table; i counts every tr, the
\* first one is skipped
RECURSIVE AttendanceSubjects(_, _)
AttendanceSubjects(rows, i) ==
    IF rows = << >> THEN << >>
    ELSE LET cells == Head(rows)
             rest == AttendanceSubjects(Tail(rows), i + 1)
         IN IF Len(cells) >= 4 /\ i > 0
              THEN LET attended == OrElse(parseInt(trim(cells[2])), 0)
                       total == OrElse(parseInt(trim(cells[3])), 0)
                       given == trim(cells[4])
                   IN <<[subject    |-> trim(cells[1]),
                         attended   |-> attended,
                         total      |-> total,
                         percentage |-> IF given # << >> THEN given
                                        ELSE IF total # 0 THEN Percent(attended, total)
                                        ELSE <<"0","%">>]>> \o rest
              ELSE rest

\* line 384: the reduce over attendance.subjects
RECURSIVE Totals(_)
Totals(subjects) ==
    IF subjects = << >> THEN [attended |-> 0, total |-> 0]
    ELSE LET acc == Totals(SubSeq(subjects, 1, Len(subjects) - 1))
             sub == subjects[Len(subjects)]
         IN [attended |-> acc.attended + sub.attended, total |-> acc.total + sub.total]

\* AttendanceRecord with the overall figure read off the subjects' own
\* percentages (the last one)
AttendanceRecordOfLastSubject(rows) ==
    LET subjects == AttendanceSubjects(rows, 0)
    IN [overall  |-> IF subjects # << >> THEN subjects[Len(subjects)].percentage
                                         ELSE <<"0","%">>,
        subjects |-> subjects]

\* lines 371-385
AttendanceRecord(rows) ==
    LET subjects == AttendanceSubjects(rows, 0)
        totals == Totals(subjects)
    IN [overall  |-> IF totals.total # 0 THEN Percent(totals.attended, totals.total)
                                         ELSE <<"0","%">>,
        subjects |-> subjects]

\* lines 405-421: entries with a title, capped at 20, and the full count
RECURSIVE ExtractAnnouncements(_)
ExtractAnnouncements(elems) ==
    IF elems = << >> THEN << >>
    ELSE IF Trim(Head(elems).title) # ""
      THEN <<[title |-> Trim(Head(elems).title)]>> \o ExtractAnnouncements(Tail(elems))
      ELSE ExtractAnnouncements(Tail(elems))

AnnouncementsCap == 20

Slice(seq, n) == SubSeq(seq, 1, IF Len(seq) < n THEN Len(seq) ELSE n)

\* AnnouncementsResult with the count taken after the cut
AnnouncementsResultCountsKept(elems) ==
    LET announcements == Slice(ExtractAnnouncements(elems), AnnouncementsCap) IN
    [announcements |-> announcements,
     count         |-> Len(announcements)]

AnnouncementsResult(elems) ==
    LET announcements == ExtractAnnouncements(elems) IN
    [announcements |-> Slice(announcements, AnnouncementsCap),
     count         |-> Len(announcements)]

----------------------------------------------------------------------------
(* The request handlers.  A handler runs from one await to the next without *)
(* interruption; a call of makeRequest or the try block of loginStudent     *)
(* touches nothing shared, so each is taken as one step here.               *)

Url(base, registerNo, query) == [base |-> base, registerNo |-> registerNo, query |-> query]
PlainUrl(base) == Url(base, << >>, << >>)

Error(text) == [error |-> text]

NewRequest(op, registerNo, password, examId) ==
    [op         |-> op,
     pc         |-> "start",
     registerNo |-> registerNo,
     password   |-> password,
     examId     |-> examId,
     status     |-> 0,
     body       |-> Null,
     sent       |-> 0,            \* responses written to res
     key        |-> << >>,        \* cacheKey
     fromCache  |-> FALSE,        \* answered by the `if (cached)` branch
     servedFrom |-> 0,            \* history: the request that wrote the entry it was served
     wrote      |-> FALSE,        \* history: this request called cache.set
     reads      |-> 0,            \* history: calls of cache.get
     liveAtStart |-> {},          \* history: identifiers with a live profile entry on arrival
     logins     |-> 0,            \* calls of loginStudent
     login      |-> LGIdle,
     calls      |-> << >>,        \* the opts of each call of makeRequest, in order
     last       |-> Null,         \* history: what the latest call of makeRequest gave
     urlIdx     |-> 0,
     response   |-> Null,         \* the handler's local `response`
     successUrl |-> Null]

\* res.status(status).json(body)
Respond(rq, status, body) ==
    [rq EXCEPT !.pc = "done", !.status = status, !.body = body, !.sent = rq.sent + 1]

\* if (cached) return res.json({ ...cached, cached: true })
RespondHit(rq, cached, writer) ==
    [Respond(rq, 200, HitBody(cached)) EXCEPT !.fromCache = TRUE, !.servedFrom = writer]

\* cache.set(cacheKey, value); return res.json(value)
RespondFresh(rq, value) ==
    [Respond(rq, 200, value) EXCEPT !.wrote = TRUE]

CallLoginStudent(rq) ==
    [rq EXCEPT !.pc = "login", !.logins = rq.logins + 1,
               !.login = LGStart(rq.registerNo, rq.password)]

IsProfile(v) == "personalInfo" \in DOMAIN v
LiveProfileIds(c) == {c[k].registerNo : k \in {x \in DOMAIN c : IsProfile(c[x])}}

\* ProfileStart with the cache looked up before the checks of the body
ProfileStartReadsFirst(rq, c, writers) ==
    LET cacheKey == ProfileKey(rq.registerNo)
        cached == CacheGet(c, cacheKey)
        keyed == [rq EXCEPT !.key = cacheKey, !.reads = rq.reads + 1]
    IN IF IsCached(cached)
         THEN RespondHit(keyed, cached, writers[cacheKey])
       ELSE IF rq.registerNo = << >> \/ rq.password = ""
         THEN Respond(keyed, 400, Error("Register number and password are required"))
       ELSE IF ~REGNO_RE(rq.registerNo)
         THEN Respond(keyed, 400, Error("Invalid register number format"))
       ELSE CallLoginStudent(keyed)

\* ProfileStart with a login on every valid request, the cache or not
ProfileStartAlwaysLogsIn(rq, c, writers) ==
    IF rq.registerNo = << >> \/ rq.password = ""
      THEN Respond(rq, 400, Error("Register number and password are required"))
    ELSE IF ~REGNO_RE(rq.registerNo)
      THEN Respond(rq, 400, Error("Invalid register number format"))
    ELSE LET cacheKey == ProfileKey(rq.registerNo)
             keyed == [rq EXCEPT !.key = cacheKey, !.reads = rq.reads + 1]
         IN CallLoginStudent(keyed)

\* POST /api/profile up to `await loginStudent(...)`: lines 129-141
ProfileStart(rq, c, writers) ==
    IF rq.registerNo = << >> \/ rq.password = ""
      THEN Respond(rq, 400, Error("Register number and password are required"))
    ELSE IF ~REGNO_RE(rq.registerNo)
      THEN Respond(rq, 400, Error("Invalid register number format"))
    ELSE LET cacheKey == ProfileKey(rq.registerNo)
             cached == CacheGet(c, cacheKey)
             keyed == [rq EXCEPT !.key = cacheKey, !.reads = rq.reads + 1]
         IN IF IsCached(cached)
              THEN RespondHit(keyed, cached, writers[cacheKey])
              ELSE CallLoginStudent(keyed)

\* ProfileFinish without the handler's catch: the rejection of loginStudent
\* leaves the request unanswered
ProfileFinishUncaught(rq) ==
    LET pageContent == rq.login.result IN
    IF pageContent.kind = "thrown"
      THEN [rq EXCEPT !.pc = "rejected"]
    ELSE IF pageContent = Null
      THEN Respond(rq, 401, Error("Invalid credentials or login failed"))
    ELSE RespondFresh(rq, ExtractProfile(rq.registerNo, pageContent))

\* POST /api/profile after loginStudent settled: lines 141-285
ProfileFinish(rq) ==
    LET pageContent == rq.login.result IN
    IF pageContent.kind = "thrown"
      THEN Respond(rq, 500, Error("Failed to fetch student profile"))
    ELSE IF pageContent = Null
      THEN Respond(rq, 401, Error("Invalid credentials or login failed"))
    ELSE RespondFresh(rq, ExtractProfile(rq.registerNo, pageContent))

\* the candidate result pages, in the order of the array: lines 300-304
resultsUrls ==
    <<"https://app.ktu.edu.in/public/results?registerNo=",
      "https://results.ktu.edu.in/results?registerNo=",
      "https://app.ktu.edu.in/public/studentresults/">>

\* examId ? `${url}&examId=${examId}` : url
ResultsRequestUrl(rq, k) ==
    Url(resultsUrls[k], rq.registerNo,
        IF ExamIdTruthy(rq.examId) THEN rq.examId.value ELSE << >>)
ResultsCandidate(rq, k) == Url(resultsUrls[k], rq.registerNo, << >>)

\* response.data is truthy
HasData(response) == response.data.kind # "empty"

\* Accepts without the test of response.status
AcceptsAnyStatus(response) ==
    /\ response # Null
    /\ response # NoResponse
    /\ HasData(response)

\* line 311: if (response && response.status === 200 && response.data)
Accepts(response) ==
    /\ response # Null
    /\ response # NoResponse
    /\ response.status = 200
    /\ HasData(response)

\* GET /api/results/:registerNo up to the first makeRequest: lines 290-310
ResultsStart(rq, c, writers) ==
    IF rq.registerNo = << >> \/ ~REGNO_RE(rq.registerNo)
      THEN Respond(rq, 400, Error("Invalid register number format"))
    ELSE LET cacheKey == ResultsKey(rq.registerNo, rq.examId)
             cached == CacheGet(c, cacheKey)
             keyed == [rq EXCEPT !.key = cacheKey, !.reads = rq.reads + 1]
         IN IF IsCached(cached)
              THEN RespondHit(keyed, cached, writers[cacheKey])
              ELSE [keyed EXCEPT !.pc = "fetch", !.urlIdx = 1]

Called(rq, m) ==
    [rq EXCEPT !.calls = Append(rq.calls, m.opts),
               !.last = IF m.pc = "returned" THEN m.response
                                             ELSE Thrown(m.error.message)]

\* one turn of `for (const url of resultsUrls)` once makeRequest settled (as
\* m): lines 308-318.  pc "parse" is the code after the loop.
ResultsLoop(rq, m) ==
    LET logged == Called(rq, m)
        got == IF m.pc = "returned" THEN [logged EXCEPT !.response = m.response]
                                    ELSE logged
    IN IF m.pc = "returned" /\ Accepts(m.response)
         THEN [got EXCEPT !.successUrl = ResultsCandidate(rq, rq.urlIdx), !.pc = "parse"]
       ELSE IF rq.urlIdx < Len(resultsUrls)
         THEN [got EXCEPT !.urlIdx = rq.urlIdx + 1]
       ELSE [got EXCEPT !.pc = "parse"]

\* ResultsFinish with cache.set moved above the test of results.results.length
ResultsFinishCachesEmpty(rq) ==
    IF rq.response = Null \/ rq.successUrl = Null
      THEN Respond(rq, 404, [error |-> "Could not fetch results from KTU portal",
                             registerNo |-> toUpperCase(rq.registerNo)])
    ELSE LET results == [registerNo  |-> toUpperCase(rq.registerNo),
                         results     |-> ExtractExams(rq.response.data.doc),
                         fetchedFrom |-> rq.successUrl]
         IN IF Len(results.results) = 0
              THEN [Respond(rq, 404, [error |-> "No results found",
                                      registerNo |-> toUpperCase(rq.registerNo)])
                      EXCEPT !.wrote = TRUE]
              ELSE RespondFresh(rq, results)

\* after the loop: lines 320-350
ResultsFinish(rq) ==
    IF rq.response = Null \/ rq.successUrl = Null
      THEN Respond(rq, 404, [error |-> "Could not fetch results from KTU portal",
                             registerNo |-> toUpperCase(rq.registerNo)])
    ELSE LET results == [registerNo  |-> toUpperCase(rq.registerNo),
                         results     |-> ExtractExams(rq.response.data.doc),
                         fetchedFrom |-> rq.successUrl]
         IN IF Len(results.results) = 0
              THEN Respond(rq, 404, [error |-> "No results found",
                                     registerNo |-> toUpperCase(rq.registerNo)])
              ELSE RespondFresh(rq, results)

\* POST /api/attendance up to `await loginStudent(...)`: lines 360-364
AttendanceStart(rq) ==
    IF rq.registerNo = << >> \/ rq.password = ""
      THEN Respond(rq, 400, Error("Register number and password required"))
    ELSE IF ~REGNO_RE(rq.registerNo)
      THEN Respond(rq, 400, Error("Invalid register number format"))
    ELSE CallLoginStudent(rq)

\* AttendanceAfterLogin without the return in front of the 401: the handler
\* goes on to the attendance request
AttendanceAfterLoginNoReturn(rq) ==
    LET sessionCookie == rq.login.result IN
    IF sessionCookie.kind = "thrown"
      THEN Respond(rq, 500, Error("Failed to fetch attendance"))
    ELSE IF sessionCookie = Null
      THEN [Respond(rq, 401, Error("Invalid credentials")) EXCEPT !.pc = "fetch"]
    ELSE [rq EXCEPT !.pc = "fetch"]

\* POST /api/attendance after loginStudent settled: lines 364-367
AttendanceAfterLogin(rq) ==
    LET sessionCookie == rq.login.result IN
    IF sessionCookie.kind = "thrown"
      THEN Respond(rq, 500, Error("Failed to fetch attendance"))
    ELSE IF sessionCookie = Null
      THEN Respond(rq, 401, Error("Invalid credentials"))
    ELSE [rq EXCEPT !.pc = "fetch"]

ATTENDANCE_URL == "https://app.ktu.edu.in/attendance.htm"
ANNOUNCEMENTS_URL == "https://ktu.edu.in/eu/core/announcements.htm"

\* the options of the attendance request: line 367
AttendanceOptions(rq) ==
    [method |-> "GET", headers |-> [Cookie |-> rq.login.result]]

\* AttendanceFinish with the record stored under the register number
AttendanceFinishCaches(rq, m) ==
    LET logged == Called(rq, m) IN
    IF m.pc = "threw"
      THEN Respond(logged, 500, Error("Failed to fetch attendance"))
    ELSE IF m.response = NoResponse \/ ~HasData(m.response)
      THEN Respond(logged, 502, Error("Empty response from KTU attendance"))
    ELSE RespondFresh([logged EXCEPT !.key = toUpperCase(rq.registerNo)],
                      AttendanceRecord(m.response.data.doc))

\* POST /api/attendance after makeRequest settled (as m): lines 367-391
AttendanceFinish(rq, m) ==
    LET logged == Called(rq, m) IN
    IF m.pc = "threw"
      THEN Respond(logged, 500, Error("Failed to fetch attendance"))
    ELSE IF m.response = NoResponse \/ ~HasData(m.response)
      THEN Respond(logged, 502, Error("Empty response from KTU attendance"))
    ELSE Respond(logged, 200, AttendanceRecord(m.response.data.doc))

\* GET /api/announcements up to makeRequest: lines 397-401
AnnouncementsStart(rq, c, writers) ==
    LET cacheKey == AnnouncementsKey
        cached == CacheGet(c, cacheKey)
        keyed == [rq EXCEPT !.key = cacheKey, !.reads = rq.reads + 1]
    IN IF IsCached(cached)
         THEN RespondHit(keyed, cached, writers[cacheKey])
         ELSE [keyed EXCEPT !.pc = "fetch"]

\* GET /api/announcements after makeRequest settled (as m): lines 401-427
AnnouncementsFinish(rq, m) ==
    LET logged == Called(rq, m) IN
    IF m.pc = "threw"
      THEN Respond(logged, 500, Error("Failed to fetch announcements"))
    ELSE IF m.response = NoResponse \/ ~HasData(m.response)
      THEN Respond(logged, 502, Error("Empty response from KTU announcements"))
    ELSE RespondFresh(logged, AnnouncementsResult(m.response.data.doc))

----------------------------------------------------------------------------
(* The server: requests arrive, run from await to await, and are answered *)

ProfileInputs ==
    {<<RegUpper, "pw">>, <<RegLower, "pw">>, <<RegShort, "pw">>, <<RegUpper, "">>,
     << << >>, "pw">>}
AttendanceInputs == {<<RegUpper, "pw">>, <<RegShort, "pw">>, <<RegUpper, "">>}
ResultsInputs ==
    {<<RegUpper, NoExamId>>, <<RegUpper, ExamId(ALL)>>, <<RegLower, ExamId(<<"7">>)>>,
     <<RegBad, NoExamId>>}
FewResultsInputs == {<<RegLower, ExamId(<<"7">>)>>, <<RegBad, NoExamId>>}

\* how many awaited calls of the login resolve before one rejects: the launch
\* fails, the navigation after the submit times out, none fails
SrvLoginRuns == {0, 7, Len(LoginSteps)}
SrvPortalEnv == [token : {"t1"}, accepted : BOOLEAN, doc : ProfileDocs]

GoodRow == <<"CS101", "Maths", "4", "A", "9">>
ShortRow == <<"CS102", "Physics">>
BlankRow == <<" ", "Chemistry", "3">>
ElemGood == [examName |-> "S1", rows |-> <<ShortRow, GoodRow>>]
ElemNoName == [examName |-> " ", rows |-> <<GoodRow>>]
ElemNoSubjects == [examName |-> "S2", rows |-> <<ShortRow, BlankRow>>]
ResultsDocs == {<<ElemGood>>, <<ElemNoName, ElemNoSubjects>>, <<ElemNoSubjects, ElemGood>>}
ResultsResponses ==
    {Response(200, EmptyBody), Response(204, HtmlBody(<<ElemGood>>))}
      \cup {Response(200, HtmlBody(d)) : d \in ResultsDocs}
FewResultsResponses ==
    {Response(204, HtmlBody(<<ElemGood>>)), Response(200, HtmlBody(<<ElemGood>>)),
     Response(200, HtmlBody(<<ElemNoName, ElemNoSubjects>>))}

\* rows of the attendance table: a header row has no td
AttHeader == << >>
AttRow(subject, attended, total, percentage) == <<subject, attended, total, percentage>>
T_Ma == <<"M","a">>
T_Ph == <<"P","h">>
AttendanceTable ==
    <<AttHeader, AttRow(T_Ma, <<"3","4">>, <<"4","0">>, << >>),
                 AttRow(T_Ph, <<"3","0">>, <<"3","5">>, << >>)>>
AttendanceResponses == {Response(200, EmptyBody), Response(200, HtmlBody(AttendanceTable))}

\* a page of n entries titled "1" to n, the seventh with a blank title
ManyEntries(n) == [k \in 1..n |-> [title |-> IF k = 7 THEN " " ELSE ToString(k)]]
AnnouncementsDocs ==
    {<< >>, <<[title |-> " "], [title |-> "Exam"]>>, ManyEntries(21), ManyEntries(36)}
AnnouncementsResponses ==
    {Response(200, EmptyBody)} \cup {Response(200, HtmlBody(d)) : d \in AnnouncementsDocs}

\* the attempts of one makeRequest call: `fails` rejections, then `response`
\* unless every attempt was used up
Outcomes(fails, response) ==
    [j \in 1..fails |-> Failure("ECONNRESET", 0)]
      \o (IF fails < Retries THEN <<response>> ELSE << >>)

\* the store and its history once the handler's step left the request as rq
Stored(r, rq) ==
    /\ cache' = IF rq.wrote THEN CacheSet(cache, rq.key, rq.body)
                ELSE IF rq.fromCache THEN CacheAfterHit(cache, rq.key)
                ELSE cache
    /\ cacheSets' = IF rq.wrote THEN cacheSets + 1 ELSE cacheSets
    /\ setBy' = IF rq.wrote THEN (rq.key :> r) @@ setBy ELSE setBy

\* (the handler's step is computed once, as the value of `after`)
Arrives(rq) ==
    \E after \in {rq} :
      /\ req' = Append(req, after)
      /\ Stored(Len(req) + 1, after)
      /\ UNCHANGED <<mr, lg>>

Arrival(op, registerNo, password, examId) ==
    [NewRequest(op, registerNo, password, examId)
        EXCEPT !.liveAtStart = LiveProfileIds(cache)]

Continues(r, rq) ==
    \E after \in {rq} :
      /\ req' = [req EXCEPT ![r] = after]
      /\ Stored(r, after)
      /\ UNCHANGED <<mr, lg>>

PostProfile ==
    /\ Len(req) < MaxRequests
    /\ \E in \in ProfileInputs :
         Arrives(ProfileStart(Arrival("profile", in[1], in[2], NoExamId), cache, setBy))

GetResults ==
    /\ Len(req) < MaxRequests
    /\ \E in \in ResultsInputs :
         Arrives(ResultsStart(Arrival("results", in[1], "", in[2]), cache, setBy))

GetResultsOne ==
    /\ Len(req) < MaxRequests
    /\ \E in \in FewResultsInputs :
         Arrives(ResultsStart(Arrival("results", in[1], "", in[2]), cache, setBy))

PostAttendance ==
    /\ Len(req) < MaxRequests
    /\ \E in \in AttendanceInputs :
         Arrives(AttendanceStart(Arrival("attendance", in[1], in[2], NoExamId)))

GetAnnouncements ==
    /\ Len(req) < MaxRequests
    /\ Arrives(AnnouncementsStart(Arrival("announcements", << >>, "", NoExamId),
                                  cache, setBy))

\* loginStudent from puppeteer.launch to the finally block
LoginRuns ==
    \E r \in DOMAIN req :
      /\ req[r].pc = "login"
      /\ \E n \in SrvLoginRuns, e \in SrvPortalEnv :
           LET l == LGRun(req[r].login, n, e) IN
           Continues(r, [req[r] EXCEPT !.login = l,
                            !.pc = IF l.pc = "close" THEN "loginClose" ELSE "loginReturned"])

\* the handler waits in `await loginStudent(...)` while the call is at l
AwaitingLogin(rq, l) ==
    [rq EXCEPT !.login = l,
               !.pc = CASE l.pc = "close" -> "loginClose"
                        [] l.pc = "done" -> "loginReturned"
                        [] OTHER -> "login"]

\* the portal as a login meets it, step by step
SessionEnv == [token : {"t1"}, accepted : BOOLEAN, doc : {DocA}]

\* one awaited browser call of a request's login resolves
LoginStepResolves ==
    \E r \in DOMAIN req :
      /\ req[r].pc = "login"
      /\ \E e \in SessionEnv :
           Continues(r, AwaitingLogin(req[r], LGOnStepResolved(req[r].login, e)))

\* the browser calls that are seen to reject: the launch, and the wait for
\* the navigation after the submit
SessionRejects == {"launch", "waitForNavigation"}

\* one awaited browser call of a request's login rejects
LoginStepRejects ==
    \E r \in DOMAIN req :
      /\ req[r].pc = "login"
      /\ req[r].login.pc \in SessionRejects
      /\ Continues(r, AwaitingLogin(req[r], LGOnStepRejected(req[r].login)))

\* await browser.close()
LoginCloses ==
    \E r \in DOMAIN req :
      /\ req[r].pc = "loginClose"
      /\ \E outcome \in CloseOutcomes :
           Continues(r, [req[r] EXCEPT !.login = LGOnClose(req[r].login, outcome),
                                       !.pc = "loginReturned"])

ProfileContinues ==
    \E r \in DOMAIN req :
      /\ req[r].op = "profile"
      /\ req[r].pc = "loginReturned"
      /\ Continues(r, ProfileFinish(req[r]))

AttendanceContinues ==
    \E r \in DOMAIN req :
      /\ req[r].op = "attendance"
      /\ req[r].pc = "loginReturned"
      /\ Continues(r, AttendanceAfterLogin(req[r]))

ResultsFetchesFrom(responses) ==
    \E r \in DOMAIN req :
      /\ req[r].op = "results"
      /\ req[r].pc = "fetch"
      /\ \E outcomes \in {Outcomes(fails, response) :
                              fails \in {0, Retries}, response \in responses} :
           \E m \in {makeRequest(ResultsRequestUrl(req[r], req[r].urlIdx),
                                  [method |-> "GET", headers |-> << >>], outcomes)} :
             \E looped \in {ResultsLoop(req[r], m)} :
               Continues(r, IF looped.pc = "parse" THEN ResultsFinish(looped) ELSE looped)

ResultsFetches == ResultsFetchesFrom(ResultsResponses)
ResultsFetchesFew == ResultsFetchesFrom(FewResultsResponses)

AttendanceFetches ==
    \E r \in DOMAIN req :
      /\ req[r].op = "attendance"
      /\ req[r].pc = "fetch"
      /\ \E fails \in 0..Retries, response \in AttendanceResponses :
           Continues(r, AttendanceFinish(req[r],
              makeRequest(PlainUrl(ATTENDANCE_URL), AttendanceOptions(req[r]),
                          Outcomes(fails, response))))

\* the attendance request settles, as one of `settled`
AttendanceFetchesFrom(settled) ==
    \E r \in DOMAIN req :
      /\ req[r].op = "attendance"
      /\ req[r].pc = "fetch"
      /\ \E outcomes \in settled :
           \E m \in {makeRequest(PlainUrl(ATTENDANCE_URL), AttendanceOptions(req[r]),
                                  outcomes)} :
             Continues(r, AttendanceFinish(req[r], m))

\* the announcements request settles, as one of `settled`
AnnouncementsFetchesFrom(settled) ==
    \E r \in DOMAIN req :
      /\ req[r].op = "announcements"
      /\ req[r].pc = "fetch"
      /\ \E outcomes \in settled :
           \E m \in {makeRequest(PlainUrl(ANNOUNCEMENTS_URL),
                                  [method |-> "GET", headers |-> << >>], outcomes)} :
             Continues(r, AnnouncementsFinish(req[r], m))

AnnouncementsFetches ==
    \E r \in DOMAIN req :
      /\ req[r].op = "announcements"
      /\ req[r].pc = "fetch"
      /\ \E fails \in 0..Retries, response \in AnnouncementsResponses :
           \E m \in {makeRequest(PlainUrl(ANNOUNCEMENTS_URL),
                                  [method |-> "GET", headers |-> << >>],
                                  Outcomes(fails, response))} :
             Continues(r, AnnouncementsFinish(req[r], m))

----------------------------------------------------------------------------
(* The same handlers with each stretch that touches nothing shared taken as *)
(* one step: the whole of loginStudent, the whole candidate loop.           *)

\* loginStudent from its call to its return or throw
loginStudent(registerNo, password, n, e, outcome) ==
    LET l == LGRun(LGStart(registerNo, password), n, e) IN
    IF l.pc = "close" THEN LGOnClose(l, outcome) ELSE l

EnvA == [token |-> "t1", accepted |-> TRUE, doc |-> DocA]
EnvB == [token |-> "t2", accepted |-> TRUE, doc |-> DocB]

\* what the login of a profile request runs into: the navigation after the
\* submit times out; all goes well (two different pages); browser.close rejects
CacheLogins ==
    {<<7, EnvA, "resolved">>, <<Len(LoginSteps), EnvA, "resolved">>,
     <<Len(LoginSteps), EnvB, "resolved">>,
     <<Len(LoginSteps), EnvA, "rejected, process left">>}
CacheProfileInputs == {<<RegUpper, "pw">>, <<RegLower, "pw">>, <<RegShort, "pw">>}
CacheResultsInputs ==
    {<<RegUpper, NoExamId>>, <<RegUpper, ExamId(ALL)>>, <<RegBad, NoExamId>>}

AllFail == Outcomes(Retries, Response(200, EmptyBody))
\* what the candidates answer, in order: none answers; the first has results;
\* the third has, after an error and a 204; the first has a page without results
CacheSettled ==
    {<<AllFail, AllFail, AllFail>>,
     <<Outcomes(0, Response(200, HtmlBody(<<ElemGood>>)))>>,
     <<AllFail, Outcomes(1, Response(204, HtmlBody(<<ElemGood>>))),
       Outcomes(2, Response(200, HtmlBody(<<ElemNoSubjects, ElemGood>>)))>>,
     <<Outcomes(0, Response(200, HtmlBody(<<ElemNoName, ElemNoSubjects>>)))>>}

PostProfileFrom(inputs) ==
    /\ Len(req) < MaxRequests
    /\ \E in \in inputs :
         Arrives(ProfileStart(Arrival("profile", in[1], in[2], NoExamId), cache, setBy))

PostProfileFew == PostProfileFrom(CacheProfileInputs)

ProfileCompletesFrom(logins) ==
    \E r \in DOMAIN req :
      /\ req[r].op = "profile"
      /\ req[r].pc = "login"
      /\ \E run \in logins :
           \E l \in {loginStudent(req[r].registerNo, req[r].password,
                                   run[1], run[2], run[3])} :
             Continues(r, ProfileFinish([req[r] EXCEPT !.login = l]))

PostProfileCompletes == ProfileCompletesFrom(CacheLogins)

\* the portal does not accept the credentials and serves its login page again
EnvRefused == [token |-> "t1", accepted |-> FALSE, doc |-> DocA]

\* what a login runs into: the navigation after the submit times out, and
\* browser.close rejects as well; all goes well; the portal refuses the
\* credentials
ServerLogins ==
    {<<7, EnvA, "resolved">>,
     <<7, EnvA, "rejected, process gone">>,
     <<Len(LoginSteps), EnvA, "resolved">>,
     <<Len(LoginSteps), EnvRefused, "resolved">>}
ServerProfileInputs ==
    {<<RegLower, "pw">>, <<RegShort, "pw">>, <<RegUpper, "">>, << << >>, "pw">>}

\* what the attendance page answers: nothing in three attempts; an empty body;
\* the table, at the second attempt
AttendanceSettled ==
    {AllFail, Outcomes(0, Response(200, EmptyBody)),
     Outcomes(1, Response(200, HtmlBody(AttendanceTable)))}

AttendanceCompletesFrom(logins, settled) ==
    \E r \in DOMAIN req :
      /\ req[r].op = "attendance"
      /\ req[r].pc = "login"
      /\ \E run \in logins, outcomes \in settled :
           \E l \in {loginStudent(req[r].registerNo, req[r].password,
                                   run[1], run[2], run[3])} :
             \E after \in {AttendanceAfterLogin([req[r] EXCEPT !.login = l])} :
               IF after.pc = "fetch"
                 THEN \E m \in {makeRequest(PlainUrl(ATTENDANCE_URL),
                                             AttendanceOptions(after), outcomes)} :
                        Continues(r, AttendanceFinish(after, m))
                 ELSE Continues(r, after)

\* Pages of the portal with a range of cell texts.
\* the text beside the CGPA badge
CgpaTexts ==
    {<<":"," ","8",".","5","0">>, <<"9">>, <<"7",".","2","5","5">>, <<"0",".","1">>,
     <<"8",".","5","/","1","0">>, <<"N","/","A">>, <<":">>, << >>}
T_SubTotal == <<"S","u","b"," ","t","o","t","a","l">>
\* the activity-points table without its last row: two categories; the same
\* with points that do not parse, a row of one cell and a subtotal
ActivityBodies ==
    {<<<<T_NSS, <<"6","0">>>>, <<T_Tech, <<"3","5">>>>>>,
     <<<<T_NSS, <<"x">>>>, <<T_Tech>>, <<T_SubTotal, <<"6","0">>>>,
       <<T_Tech, <<"4","0">>>>>>}
\* the last cell of the table
TotalCells == {<<"-">>, << >>, <<"0">>, <<"9","9">>, <<"1","0","0">>, <<" ","1","2","0","p","t","s">>}
ActivityTables ==
    {body \o <<<<T_Total, cell>>>> : body \in ActivityBodies, cell \in TotalCells}
      \cup {<< >>, <<<<T_NSS, <<"6","0">>>>, <<T_Tech, <<"3","5">>>>>>}
PagesDocs ==
    {Page("Asha", cgpa, DocA.activity) : cgpa \in CgpaTexts}
      \cup {Page("Asha", DocA.cgpa, activity) : activity \in ActivityTables}
PagesLogins ==
    {<<Len(LoginSteps), [token |-> "t1", accepted |-> TRUE, doc |-> d], "resolved">> :
        d \in PagesDocs}

\* attendance tables: the two subjects without percentage cells; with
\* percentage cells that say something else; with counts that do not parse;
\* without a total that parses; with a row of three cells; without a header
\* row; without rows
AttendanceTables ==
    {AttendanceTable,
     <<AttHeader, AttRow(T_Ma, <<"3","4">>, <<"4","0">>, <<"9","0","%">>),
                  AttRow(T_Ph, <<"3","0">>, <<"3","5">>, <<"1","0","%">>)>>,
     <<AttHeader, AttRow(T_Ma, <<"x">>, <<"4","0">>, << >>),
                  AttRow(T_Ph, <<"3","0">>, <<" ","3","5"," ">>, << >>)>>,
     <<AttHeader, AttRow(T_Ma, <<"3","4">>, <<"-">>, << >>),
                  AttRow(T_Ph, << >>, <<"0">>, << >>)>>,
     <<AttHeader, <<T_Ma, <<"3","4">>, <<"4","0">>>>,
                  AttRow(T_Ph, <<"1">>, <<"3">>, << >>)>>,
     <<AttRow(T_Ma, <<"3","4">>, <<"4","0">>, << >>),
       AttRow(T_Ph, <<"3","0">>, <<"3","5">>, << >>)>>,
     <<AttHeader>>}
PagesAttendance == {Outcomes(0, Response(200, HtmlBody(t))) : t \in AttendanceTables}
PagesInputs == {<<RegUpper, "pw">>}

PostAttendanceFrom(inputs) ==
    /\ Len(req) < MaxRequests
    /\ \E in \in inputs :
         Arrives(AttendanceStart(Arrival("attendance", in[1], in[2], NoExamId)))

\* profile requests for one student under several passwords
PasswordInputs == {<<RegUpper, "pw">>, <<RegUpper, "guess">>, <<RegLower, "x">>}
\* their logins: the navigation after the submit times out; all goes well
PasswordLogins ==
    {<<7, EnvA, "resolved">>, <<Len(LoginSteps), EnvA, "resolved">>,
     <<Len(LoginSteps), EnvB, "resolved">>}

\* the candidate loop against what each makeRequest call settles as
RECURSIVE ResultsRun(_, _)
ResultsRun(rq, settled) ==
    IF rq.pc = "parse" THEN ResultsFinish(rq)
    ELSE ResultsRun(ResultsLoop(rq, makeRequest(ResultsRequestUrl(rq, rq.urlIdx),
                                                [method |-> "GET", headers |-> << >>],
                                                Head(settled))),
                    Tail(settled))

GetResultsFrom(inputs) ==
    /\ Len(req) < MaxRequests
    /\ \E in \in inputs :
         Arrives(ResultsStart(Arrival("results", in[1], "", in[2]), cache, setBy))

GetResultsCompletes ==
    \E r \in DOMAIN req :
      /\ req[r].op = "results"
      /\ req[r].pc = "fetch"
      /\ \E settled \in CacheSettled : Continues(r, ResultsRun(req[r], settled))

\* an entry's TTL (stdTTL: 1800) ran out
Expires ==
    /\ \E key \in DOMAIN cache :
         /\ cache' = CacheDrop(cache, key)
         /\ setBy' = CacheDrop(setBy, key)
    /\ UNCHANGED <<mr, lg, req, cacheSets>>

Init ==
    /\ mr = MRIdle
    /\ lg = LGIdle
    /\ cache = << >>
    /\ req = << >>
    /\ cacheSets = 0
    /\ setBy = << >>

NextReq == MRCall \/ MRAttemptResolves \/ MRAttemptRejects \/ MRBackoffDone

NextResults == GetResultsOne \/ ResultsFetches \/ Expires

NextCache ==
    \/ PostProfileFew
    \/ GetResultsFrom(CacheResultsInputs)
    \/ GetAnnouncements
    \/ PostProfileCompletes
    \/ GetResultsCompletes
    \/ AnnouncementsFetches
    \/ Expires

ServerResultsInputs == {<<RegLower, NoExamId>>, <<RegBad, NoExamId>>}
\* a candidate answers with a page of results, or not at all
ServerResultsResponses == {Response(200, HtmlBody(<<ElemGood>>))}

\* every route, each handler in the steps described above, the candidate
\* loop of the results one request at a time
\* the profile and the attendance route against the pages above
NextPages ==
    \/ PostProfileFrom(PagesInputs)
    \/ PostAttendanceFrom(PagesInputs)
    \/ ProfileCompletesFrom(PagesLogins)
    \/ AttendanceCompletesFrom({<<Len(LoginSteps), EnvA, "resolved">>}, PagesAttendance)

\* the two routes that log in, their logins taken one browser call at a time
NextSessions ==
    \/ PostProfileFrom(PagesInputs)
    \/ PostAttendanceFrom(PagesInputs)
    \/ LoginStepResolves
    \/ LoginStepRejects
    \/ LoginCloses
    \/ ProfileContinues
    \/ AttendanceContinues
    \/ AttendanceFetchesFrom({Outcomes(Retries, Response(200, EmptyBody)),
                              Outcomes(0, Response(200, HtmlBody(AttendanceTable)))})

\* the profile route alone
NextProfile ==
    \/ PostProfileFrom(PasswordInputs)
    \/ ProfileCompletesFrom(PasswordLogins)
    \/ Expires

\* what the announcements page answers: nothing in three attempts; an empty
\* body; a page with one titled entry, at the second attempt
AnnouncementsSettled ==
    {Outcomes(Retries, Response(200, EmptyBody)), Outcomes(0, Response(200, EmptyBody)),
     Outcomes(1, Response(200, HtmlBody(<<[title |-> " "], [title |-> "Exam"]>>)))}

NextServer ==
    \/ PostProfileFrom(ServerProfileInputs)
    \/ GetResultsFrom(ServerResultsInputs)
    \/ PostAttendance
    \/ GetAnnouncements
    \/ ProfileCompletesFrom(ServerLogins)
    \/ ResultsFetchesFrom(ServerResultsResponses)
    \/ AttendanceCompletesFrom(ServerLogins, AttendanceSettled)
    \/ AnnouncementsFetchesFrom(AnnouncementsSettled)
    \/ Expires

Next ==
    \/ PostProfile
    \/ GetResults
    \/ PostAttendance
    \/ GetAnnouncements
    \/ LoginRuns
    \/ LoginCloses
    \/ ProfileContinues
    \/ AttendanceContinues
    \/ ResultsFetchesFew
    \/ AttendanceFetches
    \/ AnnouncementsFetches
    \/ Expires

SpecReq == Init /\ [][NextReq]_vars

SpecLogin == Init /\ [][NextLogin]_vars

SpecResults == Init /\ [][NextResults]_vars

SpecCache == Init /\ [][NextCache]_vars

SpecPages == Init /\ [][NextPages]_vars

SpecSessions == Init /\ [][NextSessions]_vars

SpecProfile == Init /\ [][NextProfile]_vars

SpecServer == Init /\ [][NextServer]_vars

\* every awaited browser call and HTTP attempt settles (puppeteer and axios
\* time out), so a handler that waits is resumed
Resumes ==
    \/ ProfileCompletesFrom(ServerLogins)
    \/ ResultsFetchesFrom(ServerResultsResponses)
    \/ AttendanceCompletesFrom(ServerLogins, AttendanceSettled)
    \/ AnnouncementsFetchesFrom(AnnouncementsSettled)

SpecServerFair == SpecServer /\ WF_vars(Resumes)

Spec == Init /\ [][Next]_vars

----------------------------------------------------------------------------
(* Properties *)

AllRejected(log) == \A j \in 1..Len(log) : ~MRIsResponse(log[j])

\* C1: makeRequest stops at the first successful attempt: the attempts before
\* the one that succeeded all failed, there are at most Retries of them, the
\* call returns exactly the response of the attempt that succeeded, and it
\* issues no attempt after a success.
C1_StopsAtFirstSuccess ==
    mr.pc # "idle" =>
       /\ \A j \in 1..(Len(mr.log) - 1) : ~MRIsResponse(mr.log[j])
       /\ Len(mr.log) <= Retries
       /\ (Len(mr.log) > 0 /\ MRIsResponse(mr.log[Len(mr.log)])) => mr.pc = "returned"
       /\ mr.pc = "returned" =>
            /\ Len(mr.log) >= 1
            /\ MRIsResponse(mr.log[Len(mr.log)])
            /\ mr.response = mr.log[Len(mr.log)]

\* failure, failure, success: three attempts and the third one's response
C1_Witness ==
    /\ mr.pc = "returned"
    /\ Len(mr.log) = 3
    /\ mr.response = mr.log[3]

\* C2: when every attempt fails, makeRequest issues exactly Retries (3)
\* attempts and then throws the error of the last one; it returns nothing.
C2_ThrowsLastErrorAfterRetries ==
    mr.pc # "idle" =>
       /\ mr.pc = "threw" =>
            /\ Len(mr.log) = Retries
            /\ AllRejected(mr.log)
            /\ mr.error = mr.log[Retries]
            /\ mr.response = NoResponse
       /\ (Len(mr.log) = Retries /\ AllRejected(mr.log)) => mr.pc = "threw"
       /\ AllRejected(mr.log) => mr.pc \in {"request", "backoff", "threw"}

\* three failures whose last error differs from the earlier ones
C2_Witness ==
    /\ mr.pc = "threw"
    /\ mr.log[1] # mr.log[3]
    /\ mr.log[2] # mr.log[3]

\* C3: at every exit of loginStudent the browser it launched has been closed.
C3_BrowserClosedAtExit ==
    lg.pc = "done" => lg.browser # "open"

\* C4: when a step of the login flow fails, loginStudent returns null: it
\* does not throw and does not return content.
C4_FailedStepReturnsNull ==
    (lg.pc = "done" /\ Len(lg.trail) < Len(LoginSteps)) => lg.result = Null

JustDone(r) == req'[r].pc = "done" /\ (r \notin DOMAIN req \/ req[r].pc # "done")
FreshSuccess(r) ==
    /\ JustDone(r)
    /\ req'[r].op \in {"profile", "results", "announcements"}
    /\ req'[r].status = 200
    /\ ~req'[r].fromCache
    /\ req'[r].sent = 1

\* C5: the cache is written only by the step in which a profile, results or
\* announcements request is answered 200 from a fresh fetch and parse, and
\* what is written is that answer under that request's key; a step that ends
\* a request in any other way, and every other step of a request, leaves the
\* cache as it was.  (Only the passing of the TTL removes an entry.)
C5_CacheWrittenOnlyByFreshSuccess ==
    [][ /\ cacheSets' # cacheSets =>
             \E r \in DOMAIN req' :
                /\ FreshSuccess(r)
                /\ cacheSets' = cacheSets + 1
                /\ cache' = (req'[r].key :> req'[r].body) @@ cache
        /\ \A k \in DOMAIN cache' :
             (k \notin DOMAIN cache \/ cache'[k] # cache[k]) => cacheSets' # cacheSets
        /\ \A r \in DOMAIN req' :
             (JustDone(r) /\ (req'[r].status # 200 \/ req'[r].fromCache)) =>
                 (cache' = cache /\ cacheSets' = cacheSets)
        /\ (req' # req /\ ~(\E r \in DOMAIN req' : FreshSuccess(r))) =>
                 (cache' = cache /\ cacheSets' = cacheSets)
      ]_vars

\* a request was answered "No results found" while another one's answer is
\* the only thing in the cache
C5_Witness ==
    \E r, w \in DOMAIN req :
       /\ req[r].pc = "done" /\ req[r].status = 404 /\ req[r].successUrl # Null
       /\ req[w].wrote /\ DOMAIN cache = {req[w].key}
       /\ cacheSets = 1

ValidCredentials(rq) ==
    rq.registerNo # << >> /\ rq.password # "" /\ REGNO_RE(rq.registerNo)

\* C6: a profile request that arrives while a profile of the same identifier
\* (in any letter case) is live in the cache is answered from the cache: its
\* answer is the answer of the request that wrote the entry plus the marker
\* cached: true and nothing else, and it performs no login.
C6_ProfileServedFromCache ==
    \A r \in DOMAIN req :
       (req[r].op = "profile" /\ ValidCredentials(req[r])) =>
          /\ toUpperCase(req[r].registerNo) \in req[r].liveAtStart =>
                (req[r].pc = "done" /\ req[r].fromCache)
          /\ req[r].fromCache =>
                LET w == req[req[r].servedFrom] IN
                /\ w.op = "profile" /\ w.status = 200 /\ ~w.fromCache
                /\ toUpperCase(w.registerNo) = toUpperCase(req[r].registerNo)
                /\ req[r].status = 200
                /\ DOMAIN req[r].body = DOMAIN w.body \cup {"cached"}
                /\ "cached" \notin DOMAIN w.body
                /\ req[r].body.cached = TRUE
                /\ \A f \in DOMAIN w.body : req[r].body[f] = w.body[f]
                /\ req[r].logins = 0

\* the second call spells the identifier in another letter case
C6_Witness ==
    \E r \in DOMAIN req :
       /\ req[r].op = "profile" /\ req[r].fromCache
       /\ req[r].registerNo # req[req[r].servedFrom].registerNo
       /\ req[req[r].servedFrom].logins = 1

\* C7: a cache hit never changes the stored entry: every live entry is equal
\* to the record its writer set and carries no cached marker, however many
\* hits it served; the marker is on the answers only.
C7_HitLeavesEntryUntouched ==
    /\ \A k \in DOMAIN cache :
          /\ "cached" \notin DOMAIN cache[k]
          /\ req[setBy[k]].wrote
          /\ cache[k] = req[setBy[k]].body
    /\ \A r \in DOMAIN req :
          req[r].fromCache => (req[r].body.cached = TRUE /\ ~req[r].wrote)

\* an entry that served a hit and is still live
C7_Witness ==
    \E r \in DOMAIN req :
       /\ req[r].fromCache
       /\ req[r].key \in DOMAIN cache
       /\ setBy[req[r].key] = req[r].servedFrom

\* C8: cache keys never collide: a request is answered from the cache only
\* with an entry written by a request of the same operation, the same
\* normalized identifier and the same exam identifier (absent being different
\* from every supplied one).
C8_NoKeyCollision ==
    \A r \in DOMAIN req :
       req[r].fromCache =>
          LET w == req[req[r].servedFrom] IN
          /\ w.op = req[r].op
          /\ toUpperCase(w.registerNo) = toUpperCase(req[r].registerNo)
          /\ w.examId = req[r].examId

\* C9: a results request with a valid identifier is answered 200 with at
\* least one exam, each with at least one subject, or 404; never 200 with an
\* empty list, from a fresh fetch or from the cache.
C9_ResultsNeverEmpty ==
    \A r \in DOMAIN req :
       (req[r].op = "results" /\ req[r].pc = "done" /\ REGNO_RE(req[r].registerNo)) =>
          /\ req[r].status \in {200, 404}
          /\ req[r].status = 200 =>
               /\ Len(req[r].body.results) >= 1
               /\ \A i \in 1..Len(req[r].body.results) :
                     Len(req[r].body.results[i].subjects) >= 1
          /\ req[r].status = 404 => "results" \notin DOMAIN req[r].body

\* a fresh answer from a page one of whose two exams had no subject, and an
\* answer from the cache
C9_Witness ==
    \E r, h \in DOMAIN req :
       /\ req[r].op = "results" /\ req[r].wrote
       /\ Len(req[r].last.data.doc) = 2 /\ Len(req[r].body.results) = 1
       /\ req[h].op = "results" /\ req[h].fromCache /\ req[h].servedFrom = r

\* an answer the loop takes: a response, HTTP 200, with a non-empty body
Answered200(x) == x.kind = "response" /\ x.status = 200 /\ x.data.kind # "empty"

Fetching(rq) == rq.op = "results" /\ rq.pc \in {"fetch", "done"} /\ rq.urlIdx > 0

C10_State ==
    \A r \in DOMAIN req :
       Fetching(req[r]) =>
          LET rq == req[r]
              n  == Len(rq.calls)
          IN
          \* the candidates requested are the first n of the list, in its order
          /\ n <= Len(resultsUrls)
          /\ \A j \in 1..n : rq.calls[j].url = ResultsRequestUrl(rq, j)
          /\ rq.pc = "fetch" =>
               (n = rq.urlIdx - 1 /\ rq.successUrl = Null /\ ~Answered200(rq.last))
          /\ (rq.pc = "done" /\ rq.successUrl # Null) =>
               \* the last candidate requested is the accepted one, and it is
               \* its response that is parsed and reported
               /\ Answered200(rq.last)
               /\ rq.response = rq.last
               /\ rq.successUrl = ResultsCandidate(rq, n)
               /\ IF ExtractExams(rq.last.data.doc) = << >>
                    THEN rq.status = 404
                    ELSE /\ rq.status = 200
                         /\ rq.body.fetchedFrom = ResultsCandidate(rq, n)
                         /\ rq.body.results = ExtractExams(rq.last.data.doc)
          /\ (rq.pc = "done" /\ rq.successUrl = Null) =>
               \* every candidate was requested, none accepted: not found
               /\ n = Len(resultsUrls)
               /\ ~Answered200(rq.last)
               /\ rq.status = 404
               /\ DOMAIN rq.body = {"error", "registerNo"}

C10_Step ==
    \A r \in DOMAIN req :
       (Fetching(req[r]) /\ req'[r] # req[r]) =>
          \* one more candidate is requested, the next of the list, and the
          \* loop ends with it exactly when its answer is 200 with a body
          /\ req[r].pc = "fetch"
          /\ Len(req'[r].calls) = Len(req[r].calls) + 1
          /\ Answered200(req'[r].last) <=> req'[r].successUrl # Null
          /\ req'[r].successUrl # Null => req'[r].pc = "done"
          /\ (req'[r].successUrl = Null /\ req[r].urlIdx < Len(resultsUrls)) =>
               (req'[r].pc = "fetch" /\ req'[r].urlIdx = req[r].urlIdx + 1)

\* C10: the results flow requests its candidates in the order of the list,
\* accepts the first that answers 200 with a non-empty body, requests none
\* after it, and parses and reports (fetchedFrom) that candidate's response;
\* when none is accepted it answers not-found without extracting anything.
C10_CandidatesInOrder == []C10_State /\ [][C10_Step]_vars

\* the third candidate is accepted after the first two were not
C10_Witness ==
    \E r \in DOMAIN req :
       /\ req[r].op = "results" /\ req[r].status = 200 /\ ~req[r].fromCache
       /\ Len(req[r].calls) = 3
       /\ req[r].body.fetchedFrom.base = resultsUrls[3]

\* C11: the Cookie header of the attendance-page request is the session
\* cookie the browser held after the login of that same request.
C11_CookieIsSessionCookie ==
    \A r \in DOMAIN req :
       (req[r].op = "attendance" /\ Len(req[r].calls) > 0) =>
          /\ req[r].login.cookies # NoCookies
          /\ req[r].calls[1].headers.Cookie = req[r].login.cookies

\* 3 letters, 2 digits, 2 letters, 3 digits
WellFormed(registerNo) ==
    /\ Len(registerNo) = 10
    /\ \A k \in {1, 2, 3} \cup {6, 7} : IsLetter(registerNo[k])
    /\ \A k \in {4, 5} \cup {8, 9, 10} : IsDigit(registerNo[k])

Invalid(rq) ==
    /\ rq.op \in {"profile", "attendance", "results"}
    /\ \/ ~WellFormed(rq.registerNo)
       \/ (rq.op \in {"profile", "attendance"} /\ rq.password = "")

\* C12: a request with a missing or ill-formed registerNo, or (profile,
\* attendance) a missing password, is answered 400 in the step in which it
\* arrives, and neither then nor later has it read or written the cache,
\* launched a browser or made an outbound request.
C12_InvalidAnsweredAtOnce ==
    \A r \in DOMAIN req :
       Invalid(req[r]) =>
          /\ req[r].pc = "done"
          /\ req[r].status = 400
          /\ req[r].sent = 1
          /\ "error" \in DOMAIN req[r].body
          /\ req[r].reads = 0 /\ ~req[r].fromCache
          /\ ~req[r].wrote
          /\ req[r].logins = 0 /\ req[r].login = LGIdle
          /\ req[r].calls = << >>

\* an invalid profile request, and after it a request that was served and
\* whose answer is in the cache
C12_Witness ==
    /\ Len(req) = 2
    /\ Invalid(req[1]) /\ req[1].op = "profile"
    /\ req[2].pc = "done" /\ req[2].status = 200
    /\ cache # << >>

\* the login of a request is over without an authenticated session to show
\* for it: a step failed, the release of the browser failed, or the portal
\* did not accept the credentials
LoginFailed(l) ==
    /\ l.pc = "done"
    /\ \/ Len(l.trail) < Len(LoginSteps)
       \/ l.result.kind = "thrown"
       \/ ~l.accepted

\* C13: a profile or attendance request calls loginStudent at most once, and
\* when its login failed it is answered with the authentication error (401)
\* without an outbound request, an extraction or a cache write.
C13_FailedLoginIsAuthenticationError ==
    \A r \in DOMAIN req :
       (req[r].op \in {"profile", "attendance"} /\ req[r].logins > 0) =>
          /\ req[r].logins = 1
          /\ (LoginFailed(req[r].login) /\ req[r].pc = "done") =>
                /\ req[r].status = 401
                /\ DOMAIN req[r].body = {"error"}
                /\ req[r].calls = << >>
                /\ ~req[r].wrote

\* C14: wherever a request uses registerNo as an identifier it uses the
\* uppercase form of what was supplied: in its cache key, in the registerNo
\* field of its answer, in the username typed into the login form and in the
\* public-results URLs.
C14_RegisterNoUppercased ==
    \A r \in DOMAIN req :
       LET rq == req[r]
           upper == toUpperCase(rq.registerNo)
       IN /\ (rq.op = "profile" /\ rq.key # << >>) => rq.key = PROFILE_ \o upper
          /\ (rq.op = "results" /\ rq.key # << >>) =>
                SubSeq(rq.key, 1, Len(RESULTS_) + Len(upper)) = RESULTS_ \o upper
          /\ (rq.pc = "done" /\ "registerNo" \in DOMAIN rq.body) =>
                rq.body.registerNo = upper
          /\ (rq.logins > 0 /\ rq.login.username # << >>) => rq.login.username = upper
          /\ rq.op = "results" =>
                \A j \in 1..Len(rq.calls) : rq.calls[j].url.registerNo = upper

\* an error got out of loginStudent (the release of the browser) or out of
\* makeRequest into the body of the handler
Escaped(rq) ==
    \/ /\ rq.op \in {"profile", "attendance"}
       /\ rq.logins > 0
       /\ rq.login.pc = "done"
       /\ rq.login.result.kind = "thrown"
    \/ /\ rq.op \in {"attendance", "announcements"}
       /\ rq.last.kind = "thrown"

C15_State ==
    \A r \in DOMAIN req :
       /\ Escaped(req[r]) =>
            /\ req[r].pc = "done"
            /\ req[r].status = 500
            /\ "error" \in DOMAIN req[r].body
            /\ req[r].sent = 1
            /\ ~req[r].wrote
       /\ (req[r].pc = "done" /\ req[r].status = 500) => Escaped(req[r])

C15_Step ==
    \A r \in DOMAIN req' :
       (JustDone(r) /\ req'[r].status = 500) =>
          /\ cache' = cache /\ cacheSets' = cacheSets /\ setBy' = setBy
          /\ \A o \in DOMAIN req : o # r => req'[o] = req[o]

AllAnswered == \A r \in DOMAIN req : req[r].pc = "done"

C15_OthersComplete == <>[]AllAnswered

\* C15: an error that gets out of loginStudent or makeRequest into a handler
\* is answered by that handler as a 500 with a generic error body; the step
\* that does so changes neither the cache nor any other request, and every
\* request, among them those in flight at that moment, gets its answer.
C15_ErrorStaysInItsFlow == []C15_State /\ [][C15_Step]_vars /\ C15_OthersComplete

\* a request was answered 500 while another was in flight, which has since
\* been served its own result and had it cached
C15_Witness ==
    /\ Len(req) = 2
    /\ req[2].pc = "done" /\ req[2].status = 500 /\ req[2].op = "attendance"
    /\ req[1].pc = "done" /\ req[1].status = 200 /\ req[1].wrote
    /\ req[1].key \in DOMAIN cache /\ setBy[req[1].key] = 1
    /\ cacheSets = 1

\* a profile request answered with the profile it built from the page
BuiltProfile(rq) ==
    /\ rq.op = "profile" /\ rq.pc = "done" /\ rq.status = 200 /\ ~rq.fromCache
    /\ rq.login.result.kind = "html"

RECURSIVE PointsOf(_)
PointsOf(breakdown) ==
    IF breakdown = << >> THEN 0
    ELSE breakdown[Len(breakdown)].points + PointsOf(SubSeq(breakdown, 1, Len(breakdown) - 1))

\* C16: the total of the activity points is the integer in the last cell of
\* the table's last row whenever that cell parses, 0 included, and the sum of
\* the breakdown's points when it does not; no category of the breakdown
\* contains "total" in any case; the status is Completed exactly when the
\* total is at least 100.
C16_ActivityTotal ==
    \A r \in DOMAIN req :
       BuiltProfile(req[r]) =>
          LET rows == req[r].login.result.doc.activity
              points == req[r].body.activityPoints
              last == parseInt(LastCellText(rows))
              total == IF isNaN(last) THEN PointsOf(points.breakdown) ELSE last.value
          IN /\ points.total = toString(total)
             /\ \A k \in DOMAIN points.breakdown :
                  ~TotalTest(points.breakdown[k].category)
             /\ points.status = (IF total >= 100 THEN "Completed" ELSE "Pending")

\* an attendance request answered with the record built from the table
BuiltAttendance(rq) == rq.op = "attendance" /\ rq.pc = "done" /\ rq.status = 200

\* the rows of a table that count as subjects: all but the first tr, with at
\* least four cells
SubjectRows(rows) ==
    IF rows = << >> THEN << >> ELSE SelectSeq(Tail(rows), LAMBDA cells : Len(cells) >= 4)

\* the count in a cell, 0 when there is none to read
Counted(text) == IF isNaN(parseInt(trim(text))) THEN 0 ELSE parseInt(trim(text)).value

RECURSIVE SumOf(_, _)
SumOf(subjects, field) ==
    IF subjects = << >> THEN 0 ELSE Head(subjects)[field] + SumOf(Tail(subjects), field)

\* text is digits, a point, two digits and "%"
IsHundredths(text) ==
    /\ Len(text) >= 5
    /\ text[Len(text)] = "%"
    /\ text[Len(text) - 3] = "."
    /\ \A k \in (1..(Len(text) - 1)) \ {Len(text) - 3} : IsDigit(text[k])

\* the number of hundredths such a text stands for
Hundredths(text) == DigitsValue(RemoveFirst(SubSeq(text, 1, Len(text) - 1), "."))

\* C17: the subjects of the attendance record carry the counts of their rows,
\* 0 where a count does not parse; whenever the totals add up to more than 0
\* the overall figure is the sum of attended over the sum of total, times
\* 100, rounded to the nearest hundredth and followed by "%": "85.33%" for
\* (34, 40) and (30, 35), whatever the rows' own percentage cells say.
C17_OverallFromTotals ==
    \A r \in DOMAIN req :
       BuiltAttendance(req[r]) =>
          LET rows == SubjectRows(req[r].last.data.doc)
              record == req[r].body
              attended == SumOf(record.subjects, "attended")
              total == SumOf(record.subjects, "total")
          IN /\ Len(record.subjects) = Len(rows)
             /\ \A k \in DOMAIN rows :
                  /\ record.subjects[k].attended = Counted(rows[k][2])
                  /\ record.subjects[k].total = Counted(rows[k][3])
             /\ total > 0 =>
                  /\ IsHundredths(record.overall)
                  /\ 2 * Abs(Hundredths(record.overall) * total - 10000 * attended) <= total
             /\ (attended = 64 /\ total = 75) =>
                  record.overall = <<"8","5",".","3","3","%">>

\* answered: the two subjects with percentage cells of their own; and a table
\* with a count that does not parse
C17_Witness ==
    /\ Len(req) = 2
    /\ BuiltAttendance(req[1]) /\ BuiltAttendance(req[2])
    /\ Len(req[1].body.subjects) = 2
    /\ req[1].body.subjects[1].percentage = <<"9","0","%">>
    /\ req[1].body.overall = <<"8","5",".","3","3","%">>
    /\ \E k \in DOMAIN SubjectRows(req[2].last.data.doc) :
         isNaN(parseInt(SubjectRows(req[2].last.data.doc)[k][2]))
    /\ req[2].body.overall = <<"4","0",".","0","0","%">>

\* the hundredths of a text that may start with a minus sign
SignedHundredths(text) == SignOf(text) * Hundredths(Unsigned(text))

\* C19: the percentage of a profile is the empty text when its cgpa does not
\* parse as a number; when the cgpa parses (as mantissa / 10^places) it is
\* cgpa * 10 - 2.5 rounded to the nearest hundredth, written with two
\* decimals and a "%": "82.50%" for the cgpa "8.50".
C19_PercentageDerived ==
    \A r \in DOMAIN req :
       BuiltProfile(req[r]) =>
          LET info == req[r].body.academicInfo
              cgpaNum == parseFloat(info.cgpa)
          IN /\ isNaN(cgpaNum) => info.percentage = << >>
             /\ ~isNaN(cgpaNum) =>
                  LET scale == Pow10(cgpaNum.places)
                  IN /\ IsHundredths(Unsigned(info.percentage))
                     /\ 2 * Abs(SignedHundredths(info.percentage) * scale
                                  - (1000 * cgpaNum.mantissa - 250 * scale)) <= scale
             /\ info.cgpa = <<"8",".","5","0">> =>
                  info.percentage = <<"8","2",".","5","0","%">>

\* a profile was built from a page whose cgpa reads ": 8.50"
C19_Witness ==
    \E r \in DOMAIN req :
       /\ BuiltProfile(req[r])
       /\ req[r].login.result.doc.cgpa = <<":"," ","8",".","5","0">>
       /\ req[r].body.academicInfo.cgpa = <<"8",".","5","0">>
       /\ req[r].body.academicInfo.percentage = <<"8","2",".","5","0","%">>

\* an announcements request answered with a record
AnsweredAnnouncements(rq) == rq.op = "announcements" /\ rq.pc = "done" /\ rq.status = 200

\* the entries of a page that have a title, in the order of the page
Titled(elems) == SelectSeq(elems, LAMBDA elem : Trim(elem.title) # "")

\* C18: a record built from a page with n titled entries lists the first
\* min(n, 20) of them in the page's order and has count = n; a record served
\* from the cache has the list and the count of the record that was stored.
C18_AnnouncementsCapped ==
    \A r \in DOMAIN req :
       AnsweredAnnouncements(req[r]) =>
          LET record == req[r].body IN
          IF req[r].fromCache
            THEN LET stored == req[req[r].servedFrom].body
                 IN /\ record.announcements = stored.announcements
                    /\ record.count = stored.count
            ELSE LET parsed == Titled(req[r].last.data.doc)
                     n == Len(parsed)
                     kept == IF n < 20 THEN n ELSE 20
                 IN /\ Len(record.announcements) = kept
                    /\ \A k \in 1..kept :
                         record.announcements[k].title = Trim(parsed[k].title)
                    /\ record.count = n

\* a page of 35 titled entries was answered with 20 of them and count 35, and
\* a later request was served the same from the cache
C18_Witness ==
    /\ Len(req) = 2
    /\ AnsweredAnnouncements(req[1]) /\ ~req[1].fromCache
    /\ Len(req[1].last.data.doc) = 36
    /\ Len(req[1].body.announcements) = 20 /\ req[1].body.count = 35
    /\ req[1].body.announcements[7].title = "8"
    /\ AnsweredAnnouncements(req[2]) /\ req[2].fromCache /\ req[2].servedFrom = 1
    /\ Len(req[2].body.announcements) = 20 /\ req[2].body.count = 35

\* the state of the login flow a call of loginStudent is in
LoginState(l) ==
    CASE l.pc = "idle" -> "NotCalled"
      [] l.pc \in {"launch", "newPage", "gotoLogin"} -> "Init"
      [] l.pc \in {"csrfToken", "typeUsername", "typePassword"} -> "PageLoaded"
      [] l.pc = "submit" -> "CredentialsEntered"
      [] l.pc = "waitForNavigation" -> "Submitted"
      [] l.pc \in {"gotoProfile", "content"} -> "Authenticated"
      [] l.pc = "close" -> IF l.content = Null THEN "Failed" ELSE "ContentFetched"
      [] l.pc = "done" -> IF l.browser = "open" THEN "Exited" ELSE "Closed"

LoginOrder ==
    <<"Init", "PageLoaded", "CredentialsEntered", "Submitted", "Authenticated",
      "ContentFetched", "Closed">>

\* the changes of state the flow may make: one forward in the order; into
\* Failed from any state before ContentFetched; from Failed into Closed.  A
\* launch that fails leaves no browser to release, and the call is over with
\* the catch block.
LoginEdge(a, b, l) ==
    \/ a = "NotCalled" /\ b = "Init"
    \/ \E k \in 1..(Len(LoginOrder) - 1) : a = LoginOrder[k] /\ b = LoginOrder[k + 1]
    \/ \E k \in 1..5 : a = LoginOrder[k] /\ b = "Failed"
    \/ a = "Failed" /\ b = "Closed"
    \/ a = "Init" /\ b = "Closed" /\ l.browser = "none" /\ l.result = Null

C20_State ==
    /\ (lg.pc # "idle" /\ lg.content.kind = "html") =>
          /\ lg.submitted
          /\ lg.trail = LoginSteps
    /\ (lg.pc # "idle" /\ ~lg.submitted) => LoginState(lg) \in
          {"Init", "PageLoaded", "CredentialsEntered", "Failed", "Closed", "Exited"}

C20_Step ==
    LoginState(lg') # LoginState(lg) => LoginEdge(LoginState(lg), LoginState(lg'), lg')

\* C20: a call of loginStudent changes state only forward along Init,
\* PageLoaded, CredentialsEntered, Submitted, Authenticated, ContentFetched,
\* Closed, or into Failed, and from Failed only into Closed, so that it can
\* end nowhere but in Closed; content is held only once the form was
\* submitted and every step up to page.content() has completed.
C20_LoginStateOrder == []C20_State /\ [][C20_Step]_vars

\* the attempts of the call that failed so far
FailedAttempts(m) == Len(SelectSeq(m.log, LAMBDA o : o.kind = "error"))

C21_State ==
    mr.pc # "idle" =>
       /\ \A k \in DOMAIN mr.waits : mr.waits[k] = 1000 * k
       /\ Len(mr.waits) <= Retries - 1
       /\ Len(mr.waits) =
            (IF mr.pc = "threw" THEN FailedAttempts(mr) - 1 ELSE FailedAttempts(mr))
       /\ mr.pc = "threw" => FailedAttempts(mr) = Retries

C21_Step ==
    /\ (mr.pc = "request" /\ mr'.pc = "backoff") =>
          /\ Len(mr'.waits) = Len(mr.waits) + 1
          /\ mr'.waits[Len(mr'.waits)] = 1000 * FailedAttempts(mr')
    /\ (mr.pc = "request" /\ mr'.pc # "backoff") => mr'.waits = mr.waits
    /\ mr.pc = "backoff" => (mr'.pc = "request" /\ mr'.waits = mr.waits)

\* C21: makeRequest waits 1000 * i milliseconds after its i-th failed
\* attempt, for i = 1 and i = 2, and then makes the next attempt; a successful
\* attempt and the third failed attempt are followed by no wait, the latter
\* by the throw of its error.
C21_BackoffLinearBetweenAttempts == []C21_State /\ [][C21_Step]_vars

\* three attempts failed, with waits of one and two seconds between them
C21_Witness ==
    /\ mr.pc = "threw"
    /\ FailedAttempts(mr) = 3
    /\ mr.waits = <<1000, 2000>>

\* the requests whose handler has called loginStudent
LoggingIn == {r \in DOMAIN req : req[r].login.pc # "idle"}

\* the browser processes that are running
OpenBrowsers == {r \in LoggingIn : req[r].login.browser = "open"}

Launches(l) == Len(SelectSeq(l.trail, LAMBDA step : step = "launch"))

C22_State ==
    \A r \in DOMAIN req :
       /\ req[r].logins <= 1
       /\ (req[r].login.pc # "idle") = (req[r].logins = 1)
       /\ r \in LoggingIn =>
            /\ Launches(req[r].login) = (IF req[r].login.browser = "none" THEN 0 ELSE 1)
            /\ (\A k \in DOMAIN req[r].login.trail :
                   req[r].login.trail[k] # "gotoLogin") =>
                  req[r].login.cookies = NoCookies

C22_Step ==
    /\ \A r \in DOMAIN req' \ DOMAIN req :
          (/\ req'[r].op \in {"profile", "attendance"}
           /\ REGNO_RE(req'[r].registerNo) /\ req'[r].password # ""
           /\ ~req'[r].fromCache) =>
             /\ req'[r].pc = "login"
             /\ req'[r].login.pc = "launch"
    /\ \A r, o \in DOMAIN req :
          (r # o /\ req'[r].login # req[r].login) => req'[o].login = req[o].login

\* C22: every call of loginStudent launches a browser of its own, once, and
\* starts without cookies; a valid profile or attendance request that is not
\* served from the cache is in its launch as soon as it has arrived, however
\* many browsers are running, and a step of one login changes no other.
C22_OneBrowserPerLogin == []C22_State /\ [][C22_Step]_vars

\* as many browsers are running as requests were accepted, all of them
\* profile requests for the same register number
C22_Witness ==
    /\ Len(req) = MaxRequests
    /\ OpenBrowsers = DOMAIN req
    /\ \A r \in DOMAIN req : req[r].registerNo = req[1].registerNo
    /\ \A r \in DOMAIN req : req[r].op = "profile"

\* the request a step has worked on: the one that arrived or changed
Touched(r) == r \notin DOMAIN req \/ req'[r] # req[r]

C23_State ==
    \A r \in DOMAIN req :
       req[r].op = "attendance" =>
          /\ req[r].reads = 0
          /\ ~req[r].fromCache
          /\ ~req[r].wrote
          /\ (REGNO_RE(req[r].registerNo) /\ req[r].password # "") =>
                /\ req[r].logins = 1
                /\ req[r].login.registerNo = req[r].registerNo
          /\ req[r].pc = "done" /\ req[r].status = 200 => req[r].login.pc = "done"

C23_Step ==
    \A r \in DOMAIN req' :
       (req'[r].op = "attendance" /\ Touched(r)) =>
          /\ cache' = cache
          /\ cacheSets' = cacheSets
          /\ setBy' = setBy

\* C23: the attendance handler never calls cache.get or cache.set and is
\* never answered from the cache; a request with a valid register number
\* and a password calls loginStudent, once, whatever the cache holds; and no
\* step of an attendance request changes the entries of the cache.
C23_AttendanceBypassesCache == []C23_State /\ [][C23_Step]_vars

\* a profile was stored, and an attendance request for the same register
\* number that arrived while it was live was answered after a login of its own
C23_Witness ==
    \E p, a \in DOMAIN req :
       /\ req[p].op = "profile" /\ req[p].wrote
       /\ req[p].key \in DOMAIN cache /\ setBy[req[p].key] = p
       /\ req[a].op = "attendance" /\ req[a].pc = "done" /\ req[a].status = 200
       /\ toUpperCase(req[a].registerNo) \in req[a].liveAtStart
       /\ cache[req[p].key].registerNo = toUpperCase(req[a].registerNo)
       /\ req[a].logins = 1 /\ req[a].login.pc = "done"
       /\ cacheSets = 1

\* every awaited browser call of the login resolved, browser.close included
AllStepsResolved(l) == l.pc = "done" /\ l.trail = LoginSteps /\ l.result.kind # "thrown"

\* C24: a login that returns page content is one whose credentials the
\* portal accepted; when the portal refuses them and no browser call fails,
\* loginStudent returns null, and the profile request is answered 401 and
\* stores nothing.
C24_ContentOnlyWhenAccepted ==
    \A r \in DOMAIN req :
       (req[r].login.pc # "idle" /\ AllStepsResolved(req[r].login)) =>
          /\ req[r].login.result.kind = "html" => req[r].login.accepted
          /\ ~req[r].login.accepted =>
                /\ req[r].login.result = Null
                /\ (req[r].op = "profile" /\ req[r].pc = "done") =>
                      (req[r].status = 401 /\ ~req[r].wrote)

\* a profile request with a register number and a password that arrived
\* while a profile for its register number was live
ArrivedAtLiveEntry(rq) ==
    /\ rq.op = "profile"
    /\ REGNO_RE(rq.registerNo) /\ rq.password # ""
    /\ toUpperCase(rq.registerNo) \in rq.liveAtStart

\* C25: a profile request that arrives while a profile for its register
\* number is live is answered with the stored profile, without a call of
\* loginStudent, so that its password is never used: its answer is that of
\* the request that stored the entry, whichever password that one had, and
\* two such requests served the same entry get the same answer.
C25_HitIgnoresPassword ==
    \A r \in DOMAIN req :
       ArrivedAtLiveEntry(req[r]) =>
          /\ req[r].pc = "done" /\ req[r].status = 200 /\ req[r].fromCache
          /\ req[r].logins = 0 /\ req[r].login.pc = "idle"
          /\ \A f \in DOMAIN req[req[r].servedFrom].body :
                req[r].body[f] = req[req[r].servedFrom].body[f]
          /\ \A o \in DOMAIN req :
                (ArrivedAtLiveEntry(req[o]) /\ req[o].servedFrom = req[r].servedFrom) =>
                   req[o].body = req[r].body

\* a request was served the profile another one stored, under a password
\* that is not the one the profile was fetched with
C25_Witness ==
    \E r \in DOMAIN req :
       /\ ArrivedAtLiveEntry(req[r])
       /\ req[r].fromCache
       /\ req[r].password # req[req[r].servedFrom].password
       /\ req[req[r].servedFrom].login.typedPass = req[req[r].servedFrom].password

C26_State ==
    \A r \in DOMAIN req :
       /\ req[r].sent <= 1
       /\ (req[r].sent = 1) = (req[r].pc = "done")
       /\ req[r].sent = 1 =>
            /\ req[r].status \in {200, 400, 401, 404, 500, 502}
            /\ req[r].body # Null

C26_Step ==
    \A r \in DOMAIN req : req[r].sent = 1 => req'[r] = req[r]

C26_AllAnsweredOnce == \A r \in DOMAIN req : req[r].sent = 1

\* C26: no request has more than one response sent, a request is over
\* exactly when its response was sent, the response is never touched again,
\* and, every await of the handlers settling, from some point on every
\* request that was accepted has its one response.
C26_ExactlyOneResponse == []C26_State /\ [][C26_Step]_vars /\ <>[]C26_AllAnsweredOnce

\* a results request was answered not-found and a login request was answered
\* with an authentication error, each once
C26_Witness ==
    /\ Len(req) = MaxRequests
    /\ C26_AllAnsweredOnce
    /\ \E r, o \in DOMAIN req :
         /\ req[r].op = "results" /\ req[r].status = 404
         /\ req[o].op = "attendance" /\ req[o].status = 401

====
